---- MODULE Spec2Model ----
(***************************************************************************)
(* Scan orchestration core of AsfalisSecurityIDE (backend/worker.py,       *)
(* backend/scanner_runner.py, backend/sarif_normalize.py, backend/db.py,   *)
(* backend/models.py, backend/app.py).                                     *)
(*                                                                         *)
(* The catalog store is modelled by its committed rows (what any observer  *)
(* outside a transaction reads); a transaction opened by get_session either*)
(* commits all of its writes or, when it raises, none of them.             *)
(***************************************************************************)
EXTENDS Integers, Sequences, FiniteSets, TLC

\* ------------------------------------------------------------------ bounds
NumDispatchers == 2
NumRuns == 2
MaxTime == 2
MaxFaults == 1
MaxOver == 1

\* --------------------------------------------------------------- constants
\* worker.py:22, SCAN_JOB_TIMEOUT=1 (the configuration of the timeout scenario)
JOB_TIMEOUT_SECONDS == 1
\* worker.py:23, MAX_ARCHIVE_BYTES=262144 (four chunks)
MAX_ARCHIVE_BYTES == 262144
\* worker.py:33, chunk_size of iter_content
CHUNK_SIZE == 65536

Dispatchers == 1..NumDispatchers
TmpNames == 1..NumDispatchers
RunIds == 1..NumRuns
NULL == -1
NullStr == "null"
NoRun == 0
NoDir == 0

Stages == <<"fetch_repo", "sca_osv", "sast_semgrep", "semantic_codeql",
            "sonarqube_publish", "normalize", "finalize">>
Terminal == {"completed", "failed"}

\* ------------------------------------------------------------- data shapes
NoPath == [dirOsv |-> FALSE, file |-> ""]
NoSummary == [n |-> NULL, osv |-> "", semgrep |-> "", codeql |-> ""]
NoResult == [ok |-> FALSE, msg |-> "", path |-> NoPath]
NoDoc == [kind |-> "absent", by |-> "", runs |-> <<>>]
NoEnv == [k \in {} |-> ""]
Idle == [fn |-> "idle", args |-> <<>>]
NoRet == [done |-> FALSE]
SarifFiles == {"osv.sarif", "semgrep.sarif", "codeql.sarif", "merged.sarif"}

\* models.py ScanRun: the row before the enqueuer inserted it
AbsentRow == [status |-> "absent", created_at |-> NULL, started_at |-> NULL,
              ended_at |-> NULL, error_message |-> NullStr,
              current_stage |-> NullStr, result_summary |-> NoSummary]

\* The locals of one dispatcher process: main's scan_id and the frame of
\* _run_scan_job.
InitLocals == [scan_id |-> NoRun, claim_started_at |-> NULL, started_global |-> NULL, stage_start |-> NULL,
               err |-> NullStr, archive_size |-> NULL, tmpdir |-> NoDir, dirOsv |-> FALSE,
               osv |-> NoResult, semgrep |-> NoResult, codeql |-> NoResult,
               sonar |-> NoResult, pend |-> {}, childEnv |-> NoEnv,
               fut |-> [osv |-> NoResult, semgrep |-> NoResult],
               files |-> [f \in SarifFiles |-> NoDoc],
               all_findings |-> <<>>,
               sessFindings |-> <<>>, sessArtifacts |-> <<>>]

VARIABLES
    now,        \* the wall clock (datetime.utcnow, time.time)
    env,        \* what the outside world can answer: token broker, archive, child processes
    faults,     \* catalog-store errors the environment may still inject
    runs,       \* scan_runs rows (committed)
    stages,     \* scan_stages rows of each run (committed), in insertion order
    findings,   \* findings rows of each run (committed)
    artifacts,  \* scan_artifacts rows of each run (committed)
    lock,       \* row locks held by open claim transactions
    pc,         \* where each dispatcher process stands
    loc,        \* each dispatcher's locals
    claimedBy,  \* history: dispatchers whose claim of the run committed
    invokedBy,  \* history: dispatchers that called _run_scan_job for the run
    launched,   \* history: the scanner drivers called for the run
    scratch,    \* the temp location: for each name, the run whose engine made the directory
    call,       \* a function of sarif_normalize.py called on its own: which, and its arguments
    ret         \* what that call returned

vars == <<now, env, faults, runs, stages, findings, artifacts, lock, pc, loc,
          claimedBy, invokedBy, launched, scratch, call, ret>>

\* --------------------------------------------------------------- db.py
\* get_session (db.py 52-64): the block's writes are committed together when
\* it ends normally; when the block or the commit raises they are rolled back.
\* A transaction's outcome: TRUE commits, FALSE raises (catalog error), which
\* the environment can choose while its fault budget lasts.
TxOutcomes == IF faults > 0 THEN {TRUE, FALSE} ELSE {TRUE}

Spend(ok) == IF ok THEN faults ELSE faults - 1


\* ------------------------------------------------------- worker.py helpers
\* _download_repo_archive (worker.py 26-39): the loop over iter_content. `rest`
\* is what the server still sends, `total` the bytes counted so far; the result
\* is the length of the archive, or NULL when the loop raised
\* "Archive exceeds max size".
RECURSIVE IterContentAtLimit(_, _)
IterContentAtLimit(rest, total) ==
    IF rest = 0 THEN total
    ELSE LET chunk == IF rest < CHUNK_SIZE THEN rest ELSE CHUNK_SIZE
         IN  IF total + chunk >= MAX_ARCHIVE_BYTES THEN NULL
             ELSE IterContentAtLimit(rest - chunk, total + chunk)

RECURSIVE IterContent(_, _)
IterContent(rest, total) ==
    IF rest = 0 THEN total
    ELSE LET chunk == IF rest < CHUNK_SIZE THEN rest ELSE CHUNK_SIZE
         IN  IF total + chunk > MAX_ARCHIVE_BYTES THEN NULL
             ELSE IterContent(rest - chunk, total + chunk)

DownloadRepoArchive(size) == IterContent(size, 0)

\* timeout_check (worker.py 61-63) at clock value t.
TimedOut(started_global, t) == t - started_global > JOB_TIMEOUT_SECONDS

\* ------------------------------------------------------ scanner_runner.py
\* A child process as the driver sees it: how it ended, what it printed, and
\* the state of the driver's output file when it ended.
\*   exit \in {"zero", "nonzero", "timeout", "notfound"}
\*   file \in {"absent", "empty", "full"}
Or(s, dflt) == IF s = "" THEN dflt ELSE s

\* _run (scanner_runner.py 13-30): (ok, out)
RunChild(child) ==
    CASE child.exit = "timeout"  -> [ok |-> FALSE, out |-> "timeout"]
      [] child.exit = "notfound" -> [ok |-> FALSE, out |-> "command not found"]
      [] OTHER -> [ok |-> child.exit = "zero", out |-> child.out]

\* The environment _run hands to the child: {**os.environ, **(env or {})}.
\* Environments are functions from variable names to values.
MergeEnv(a, b) ==
    [k \in DOMAIN a \cup DOMAIN b |-> IF k \in DOMAIN b THEN b[k] ELSE a[k]]

ChildEnv(environ, extra) == MergeEnv(environ, extra)

\* run_codeql's codeql_env (scanner_runner.py 88)
CodeqlEnv(environ) == [k \in DOMAIN environ \ {"CODEQL_HOME"} |-> environ[k]]

SarifPath(dirOsv, name) == [dirOsv |-> dirOsv, file |-> name]

NoDepsPhrases == {"no lockfile found", "no package sources found"}

\* run_osv (scanner_runner.py 33-50)
RunOsv(dirOsv, child) ==
    LET r == RunChild(child)
    IN  IF r.ok /\ child.file # "absent"
        THEN [ok |-> TRUE, msg |-> Or(r.out, "ok"), path |-> SarifPath(dirOsv, "osv.sarif")]
        ELSE IF r.out \in NoDepsPhrases
        THEN [ok |-> TRUE, msg |-> "No supported dependency files in this repo.", path |-> NoPath]
        ELSE [ok |-> FALSE, msg |-> Or(r.out, "no output file"), path |-> NoPath]

\* A partial file of a child that did not exit zero is not accepted.
RunSemgrepNeedsZeroExit(dirOsv, child) ==
    LET r == RunChild(child)
    IN  IF r.ok /\ child.file # "absent"
        THEN [ok |-> TRUE, msg |-> Or(r.out, "ok"), path |-> SarifPath(dirOsv, "semgrep.sarif")]
        ELSE [ok |-> FALSE, msg |-> Or(r.out, "no output file"), path |-> NoPath]

\* run_semgrep (scanner_runner.py 53-65)
RunSemgrep(dirOsv, child) ==
    LET r == RunChild(child)
    IN  IF r.ok /\ child.file # "absent"
        THEN [ok |-> TRUE, msg |-> Or(r.out, "ok"), path |-> SarifPath(dirOsv, "semgrep.sarif")]
        ELSE IF child.file = "full"
        THEN [ok |-> TRUE, msg |-> Or(r.out, "ok"), path |-> SarifPath(dirOsv, "semgrep.sarif")]
        ELSE [ok |-> FALSE, msg |-> Or(r.out, "no output file"), path |-> NoPath]

\* run_codeql (scanner_runner.py 68-120): database create, then database
\* analyze; `analyze` is looked at only when create succeeded.
RunCodeql(dirOsv, create, analyze) ==
    LET c == RunChild(create)
        a == RunChild(analyze)
    IN  IF ~c.ok
        THEN [ok |-> FALSE,
              msg |-> IF Or(c.out, "codeql database create failed") = "command not found"
                      THEN "CodeQL CLI not found (set CODEQL_HOME or add codeql to PATH)."
                      ELSE Or(c.out, "codeql database create failed"),
              path |-> NoPath]
        ELSE IF a.ok /\ analyze.file # "absent"
        THEN [ok |-> TRUE, msg |-> Or(a.out, "ok"), path |-> SarifPath(dirOsv, "codeql.sarif")]
        ELSE [ok |-> FALSE, msg |-> Or(a.out, "no output file"), path |-> NoPath]

\* database analyze is started whatever database create returned.
CodeqlStepsAlwaysAnalyze(db, create) ==
    (IF db THEN <<"rmtree">> ELSE <<>>) \o <<"create", "analyze">>

\* The steps run_codeql takes, in order (scanner_runner.py 91-117): the rmtree
\* of codeql_db when the directory exists (db), database create, and database
\* analyze when create returned ok.
CodeqlSteps(db, create) ==
    (IF db THEN <<"rmtree">> ELSE <<>>) \o <<"create">>
    \o (IF RunChild(create).ok THEN <<"analyze">> ELSE <<>>)

\* run_sonar (scanner_runner.py 123-143)
SonarConfigured(environ) == {"SONAR_HOST_URL", "SONAR_TOKEN"} \subseteq DOMAIN environ

RunSonar(environ, child) ==
    IF ~SonarConfigured(environ)
    THEN [ok |-> TRUE, msg |-> "Skipped: SONAR_HOST_URL or SONAR_TOKEN not set.", path |-> NoPath]
    ELSE [ok |-> RunChild(child).ok, msg |-> RunChild(child).out, path |-> NoPath]

\* ------------------------------------------------------ sarif_normalize.py
\* A structured-log file: kind "invalid" is no JSON at all, "nonobject" is JSON
\* whose top level is no object, "object" is an object whose runs array is
\* `runs`; a run is [by |-> the tool that wrote it, results |-> its results].
\* parse_sarif_to_findings (sarif_normalize.py 42-101): raises when data.get is
\* called on a non-object (line 50 is outside the try).
ParseRaises(doc) == doc.kind = "nonobject"

\* sarif_normalize.py 9
NORMALIZED_SEVERITIES == {"CRITICAL", "HIGH", "MED", "LOW", "INFO"}

\* str.upper and str.lower on the level strings that occur; a string without
\* letters is left as it is.
Upper(s) ==
    CASE s \in {"error", "Error", "ERROR"}       -> "ERROR"
      [] s \in {"warning", "WARNING"}            -> "WARNING"
      [] s \in {"info", "INFO"}                  -> "INFO"
      [] s \in {"note", "NOTE"}                  -> "NOTE"
      [] s \in {"recommendation", "RECOMMENDATION"} -> "RECOMMENDATION"
      [] s \in {"none", "NONE"}                  -> "NONE"
      [] s \in {"bogus", "BOGUS"}                -> "BOGUS"
      [] OTHER                                   -> s

Lower(s) ==
    CASE s \in {"error", "Error", "ERROR"}       -> "error"
      [] s \in {"warning", "WARNING"}            -> "warning"
      [] s \in {"info", "INFO"}                  -> "info"
      [] s \in {"note", "NOTE"}                  -> "note"
      [] s \in {"recommendation", "RECOMMENDATION"} -> "recommendation"
      [] s \in {"none", "NONE"}                  -> "none"
      [] s \in {"bogus", "BOGUS"}                -> "bogus"
      [] OTHER                                   -> s

\* float(cvss) (sarif_normalize.py 17): the value in tenths, not-a-number, or
\* ValueError for text that is no number.
FloatOf(s) ==
    CASE s = "10.0" -> [err |-> FALSE, nan |-> FALSE, tenths |-> 100]
      [] s = "9.8"  -> [err |-> FALSE, nan |-> FALSE, tenths |-> 98]
      [] s = "9.0"  -> [err |-> FALSE, nan |-> FALSE, tenths |-> 90]
      [] s = "8.9"  -> [err |-> FALSE, nan |-> FALSE, tenths |-> 89]
      [] s = "7.0"  -> [err |-> FALSE, nan |-> FALSE, tenths |-> 70]
      [] s = "6.9"  -> [err |-> FALSE, nan |-> FALSE, tenths |-> 69]
      [] s = "4.0"  -> [err |-> FALSE, nan |-> FALSE, tenths |-> 40]
      [] s = "3.9"  -> [err |-> FALSE, nan |-> FALSE, tenths |-> 39]
      [] s = "0"    -> [err |-> FALSE, nan |-> FALSE, tenths |-> 0]
      [] s = "-1"   -> [err |-> FALSE, nan |-> FALSE, tenths |-> -10]
      [] s = "nan"  -> [err |-> FALSE, nan |-> TRUE, tenths |-> 0]
      [] OTHER      -> [err |-> TRUE, nan |-> FALSE, tenths |-> 0]

\* The fallback is the raw level itself.
NormalizeSeverityRaw(tool, raw, cvss) ==
    LET r == Upper(IF raw = NullStr THEN "" ELSE raw)
        f == FloatOf(cvss)
    IN  IF tool = "osv"
        THEN IF cvss \notin {NullStr, ""} /\ ~f.err
             THEN IF ~f.nan /\ f.tenths >= 90 THEN "CRITICAL"
                  ELSE IF ~f.nan /\ f.tenths >= 70 THEN "HIGH"
                  ELSE IF ~f.nan /\ f.tenths >= 40 THEN "MED"
                  ELSE "LOW"
             ELSE "MED"
        ELSE IF tool = "semgrep"
        THEN CASE r = "ERROR" -> "HIGH" [] r = "WARNING" -> "MED" [] r = "INFO" -> "INFO"
               [] OTHER -> r
        ELSE IF tool = "codeql"
        THEN CASE Lower(r) = "error" -> "HIGH" [] Lower(r) = "warning" -> "MED"
               [] Lower(r) = "recommendation" -> "LOW" [] Lower(r) = "note" -> "INFO"
               [] OTHER -> r
        ELSE r

\* _normalize_severity (sarif_normalize.py 12-34); None is NullStr.
NormalizeSeverity(tool, raw, cvss) ==
    LET r == Upper(IF raw = NullStr THEN "" ELSE raw)
        f == FloatOf(cvss)
    IN  IF tool = "osv"
        THEN IF cvss \notin {NullStr, ""} /\ ~f.err
             THEN IF ~f.nan /\ f.tenths >= 90 THEN "CRITICAL"
                  ELSE IF ~f.nan /\ f.tenths >= 70 THEN "HIGH"
                  ELSE IF ~f.nan /\ f.tenths >= 40 THEN "MED"
                  ELSE "LOW"
             ELSE "MED"
        ELSE IF tool = "semgrep"
        THEN CASE r = "ERROR" -> "HIGH" [] r = "WARNING" -> "MED" [] r = "INFO" -> "INFO"
               [] OTHER -> "MED"
        ELSE IF tool = "codeql"
        THEN CASE Lower(r) = "error" -> "HIGH" [] Lower(r) = "warning" -> "MED"
               [] Lower(r) = "recommendation" -> "LOW" [] Lower(r) = "note" -> "INFO"
               [] OTHER -> "MED"
        ELSE "MED"

\* str() of a line number inside the f-string of _fingerprint
LineStr(n) ==
    CASE n = NULL -> "None" [] n = 0 -> "0" [] n = 1 -> "1" [] n = 2 -> "2" [] n = 3 -> "3"
      [] OTHER -> "12"

\* hashlib.sha256(...).hexdigest()[:32]: the digest is represented by the
\* text that was hashed.
Sha256Hex32(text) == <<"sha256", text>>

\* The digest also takes the clock.
FingerprintSalted(tool, rule_id, path, start, end, msg) ==
    Sha256Hex32(tool \o ":" \o rule_id \o ":" \o path \o ":" \o LineStr(start) \o ":"
                \o LineStr(end) \o ":" \o msg \o ":" \o LineStr(now))

\* _fingerprint (sarif_normalize.py 37-39)
Fingerprint(tool, rule_id, path, start, end, msg) ==
    Sha256Hex32(tool \o ":" \o rule_id \o ":" \o path \o ":" \o LineStr(start) \o ":"
                \o LineStr(end) \o ":" \o msg)

\* x or "" on a string that may be absent
OrEmpty(x) == IF x = NullStr THEN "" ELSE x

\* value[:n] if value else None, for the short strings that occur
OrNone(x) == IF x \in {NullStr, ""} THEN NullStr ELSE x

\* One result of a run as the file has it; an absent key is NullStr or NULL.
DefaultResult == [ruleId |-> "R1", level |-> "error", cvss |-> NullStr, uri |-> "a.py",
                  startLine |-> 1, endLine |-> NULL, msg |-> "m"]

\* A second result for the same rule at the same place with the same message,
\* reported with another level and score.
SameSite(res) == [res EXCEPT !.level = "note", !.cvss = "9.8"]

\* The body of the loop over results (sarif_normalize.py 55-100): the record
\* of one result; by, run and idx say where in the file it stood.
ParseResult(tool, by, i, n, res) ==
    LET rule_id == OrEmpty(res.ruleId)
        msg == OrEmpty(res.msg)
        level == Lower(IF res.level \in {NullStr, ""} THEN "warning" ELSE res.level)
        path_val == OrEmpty(res.uri)
        start_line == res.startLine
        end_line == IF res.endLine \in {NULL, 0} THEN start_line ELSE res.endLine
        cvss == res.cvss
    IN  [tool |-> tool, by |-> by, run |-> i, idx |-> n,
         rule_id |-> OrNone(rule_id),
         title |-> OrNone(msg),
         severity_raw |-> OrNone(level),
         severity_normalized |-> NormalizeSeverity(tool, level, cvss),
         cvss |-> OrNone(cvss),
         path |-> OrNone(path_val),
         start_line |-> start_line,
         end_line |-> end_line,
         fingerprint |-> Fingerprint(tool, rule_id, path_val, start_line, end_line, msg)]

\* A run of a file is [by, results]; the records of its first n results:
RECURSIVE RunFindings(_, _, _, _)
RunFindings(tool, run, i, n) ==
    IF n = 0 THEN <<>>
    ELSE Append(RunFindings(tool, run, i, n - 1),
                ParseResult(tool, run.by, i, n, run.results[n]))

RECURSIVE FindingsOfRuns(_, _, _)
FindingsOfRuns(tool, rs, i) ==
    IF i > Len(rs) THEN <<>>
    ELSE RunFindings(tool, rs[i], i, Len(rs[i].results)) \o FindingsOfRuns(tool, rs, i + 1)

ParseSarifToFindings(doc, tool) ==
    IF doc.kind = "object" THEN FindingsOfRuns(tool, doc.runs, 1) ELSE <<>>

\* merge_sarif_runs (sarif_normalize.py 104-123): the runs of the readable
\* inputs, in order; unreadable inputs are skipped.
RECURSIVE MergedRuns(_)
MergedRuns(docs) ==
    IF docs = <<>> THEN <<>>
    ELSE (IF Head(docs).kind = "object" THEN Head(docs).runs ELSE <<>>) \o MergedRuns(Tail(docs))

\* The output is written also when it has no runs.
MergeSarifRunsAlways(docs) == [kind |-> "object", by |-> "merge", runs |-> MergedRuns(docs)]

\* Only the first input is read.
MergeSarifRunsFirstOnly(docs) ==
    IF docs = <<>> \/ MergedRuns(<<Head(docs)>>) = <<>> THEN NoDoc
    ELSE [kind |-> "object", by |-> "merge", runs |-> MergedRuns(<<Head(docs)>>)]

MergeSarifRuns(docs) ==
    IF MergedRuns(docs) = <<>> THEN NoDoc
    ELSE [kind |-> "object", by |-> "merge", runs |-> MergedRuns(docs)]

\* The file a child leaves behind: an empty file is no JSON; a non-empty one
\* has one of the shapes the environment offers.
DocOf(tool, shape, res) ==
    CASE shape = "invalid"   -> [kind |-> "invalid", by |-> tool, runs |-> <<>>]
      [] shape = "nonobject" -> [kind |-> "nonobject", by |-> tool, runs |-> <<>>]
      [] shape = "noruns"    -> [kind |-> "object", by |-> tool, runs |-> <<>>]
      [] shape = "pair"      -> [kind |-> "object", by |-> tool,
                                 runs |-> <<[by |-> tool, results |-> <<res, SameSite(res)>>]>>]
      [] OTHER               -> [kind |-> "object", by |-> tool,
                                 runs |-> <<[by |-> tool, results |-> <<res>>]>>]

FileAfter(tool, child, shape, res) ==
    CASE child.file = "absent" -> NoDoc
      [] child.file = "empty"  -> DocOf(tool, "invalid", res)
      [] OTHER                 -> DocOf(tool, shape, res)

Shapes(child) == IF child.file = "full" THEN env.shapes ELSE {"invalid"}

Results(child) == IF child.file = "full" THEN env.results ELSE {DefaultResult}

\* ------------------------------------------------------------ environment
\* start_scan (app.py 398-426): the enqueuer inserts a queued row.
NewRow(t) == [AbsentRow EXCEPT !.status = "queued", !.created_at = t]

Enqueue ==
    \E r \in RunIds :
        /\ runs[r].status = "absent"
        /\ r <= env.maxRuns
        /\ \A q \in RunIds : q < r => runs[q].status # "absent"
        /\ runs' = [runs EXCEPT ![r] = NewRow(now)]
        /\ UNCHANGED <<now, env, faults, stages, findings, artifacts, lock, pc, loc,
                       claimedBy, invokedBy, launched, scratch, call, ret>>

Tick ==
    /\ now < env.maxTime
    /\ now' = now + 1
    /\ UNCHANGED <<env, faults, runs, stages, findings, artifacts, lock, pc, loc,
                   claimedBy, invokedBy, launched, scratch, call, ret>>

\* ------------------------------------------------------- worker.py: main
\* The claim query (worker.py 215-221): status = 'queued', ORDER BY created_at,
\* FOR UPDATE SKIP LOCKED, first row. A row locked by another open transaction
\* is skipped.
LockableNoLock(r, d) == TRUE

Lockable(r, d) == lock[r] \in {0, d}

\* The claim query also takes rows that are running.
CandidatesStale(d) == {r \in RunIds : runs[r].status \in {"queued", "running"} /\ Lockable(r, d)}

Candidates(d) == {r \in RunIds : runs[r].status = "queued" /\ Lockable(r, d)}

\* ORDER BY created_at DESC
Newest(d) == {r \in Candidates(d) :
                 \A q \in Candidates(d) : runs[r].created_at >= runs[q].created_at}

Oldest(d) == {r \in Candidates(d) :
                 \A q \in Candidates(d) : runs[r].created_at <= runs[q].created_at}

\* worker.py 223-225: what the claim writes to the row.
ClaimedRowStatusOnly(row, t) == [row EXCEPT !.status = "running"]

ClaimedRow(row, t) == [row EXCEPT !.status = "running", !.started_at = t]

\* worker.py 212-225: the body of the claim transaction, up to its commit.
ClaimSelect(d) ==
    /\ pc[d] = "poll"
    /\ IF Candidates(d) = {}
       THEN /\ loc' = [loc EXCEPT ![d].scan_id = NoRun]
            /\ UNCHANGED lock
       ELSE \E r \in Oldest(d) :
            /\ loc' = [loc EXCEPT ![d].scan_id = r, ![d].claim_started_at = now]
            /\ lock' = [lock EXCEPT ![r] = d]
    /\ pc' = [pc EXCEPT ![d] = "claim_commit"]
    /\ UNCHANGED <<now, env, faults, runs, stages, findings, artifacts, claimedBy, invokedBy, launched, scratch, call, ret>>

\* A claim whose commit raised still hands the selected run to the engine.
ClaimCommitProceeds(d) ==
    /\ pc[d] = "claim_commit"
    /\ \E ok \in TxOutcomes :
        LET r == loc[d].scan_id
        IN  /\ faults' = Spend(ok)
            /\ lock' = [q \in RunIds |-> IF lock[q] = d THEN 0 ELSE lock[q]]
            /\ IF r # NoRun
               THEN /\ IF ok
                       THEN /\ runs' = [runs EXCEPT ![r] = ClaimedRow(@, loc[d].claim_started_at)]
                            /\ claimedBy' = [claimedBy EXCEPT ![r] = @ \cup {d}]
                       ELSE UNCHANGED <<runs, claimedBy>>
                    /\ pc' = [pc EXCEPT ![d] = "job"]
                    /\ loc' = [loc EXCEPT ![d].claim_started_at = NULL]
               ELSE /\ UNCHANGED <<runs, claimedBy>>
                    /\ pc' = [pc EXCEPT ![d] = "sleep"]
                    /\ loc' = [loc EXCEPT ![d] = InitLocals]
    /\ UNCHANGED <<now, env, stages, findings, artifacts, invokedBy, launched, scratch, call, ret>>

\* The end of the with block (db.py 59-64): commit, or rollback and raise into
\* main's handler (worker.py 229-231), which sleeps.
ClaimCommit(d) ==
    /\ pc[d] = "claim_commit"
    /\ \E ok \in TxOutcomes :
        LET r == loc[d].scan_id
        IN  /\ faults' = Spend(ok)
            /\ lock' = [q \in RunIds |-> IF lock[q] = d THEN 0 ELSE lock[q]]
            /\ IF ok /\ r # NoRun
               THEN /\ runs' = [runs EXCEPT ![r] = ClaimedRow(@, loc[d].claim_started_at)]
                    /\ claimedBy' = [claimedBy EXCEPT ![r] = @ \cup {d}]
                    /\ pc' = [pc EXCEPT ![d] = "job"]
                    /\ loc' = [loc EXCEPT ![d].claim_started_at = NULL]
               ELSE /\ UNCHANGED <<runs, claimedBy>>
                    /\ pc' = [pc EXCEPT ![d] = "sleep"]
                    /\ loc' = [loc EXCEPT ![d] = InitLocals]
    /\ UNCHANGED <<now, env, stages, findings, artifacts, invokedBy, launched, scratch, call, ret>>

\* time.sleep(POLL_INTERVAL_SECONDS) (worker.py 231), then the next iteration.
Sleep(d) ==
    /\ pc[d] = "sleep"
    /\ pc' = [pc EXCEPT ![d] = "poll"]
    /\ UNCHANGED <<now, env, faults, runs, stages, findings, artifacts, lock, loc,
                   claimedBy, invokedBy, launched, scratch, call, ret>>

\* ---------------------------------------------- worker.py: _record_stage
StageRow(stage, t) == [stage |-> stage, started_at |-> t, ended_at |-> NULL,
                       error_message |-> NullStr]

\* worker.py 48: the row of this stage with the greatest started_at (0: none)
LatestRow(rows, stage) ==
    LET own == {i \in 1..Len(rows) : rows[i].stage = stage}
    IN  IF own = {} THEN 0
        ELSE CHOOSE i \in own : \A j \in own :
                 rows[j].started_at < rows[i].started_at
                 \/ (rows[j].started_at = rows[i].started_at /\ j <= i)

\* The new row takes the place of the rows written before.
OpenStageReplaces(rows, stage, t) == <<StageRow(stage, t)>>

\* worker.py 53
OpenStage(rows, stage, t) == Append(rows, StageRow(stage, t))

\* The close writes ended_at and leaves error_message null.
CloseStageDropsError(rows, stage, t, e) ==
    LET i == LatestRow(rows, stage)
    IN  IF i = 0 THEN rows
        ELSE [rows EXCEPT ![i].ended_at = t]

\* The close writes the error but leaves ended_at null.
CloseStageKeepsOpen(rows, stage, t, e) ==
    LET i == LatestRow(rows, stage)
    IN  IF i = 0 THEN rows
        ELSE [rows EXCEPT ![i].error_message = e]

\* worker.py 47-51
CloseStage(rows, stage, t, e) ==
    LET i == LatestRow(rows, stage)
    IN  IF i = 0 THEN rows
        ELSE [rows EXCEPT ![i].ended_at = t, ![i].error_message = e]

\* worker.py 44-46
StageOnRun(row, stage) == [row EXCEPT !.current_stage = stage]

ErrOf(res) == IF res.ok THEN NullStr ELSE res.msg

\* The call sites of _record_stage in _run_scan_job, by the position of the
\* engine: the stage, whether the call opens or closes its row, whether the
\* call site takes a new stage_start, the timeout_check next to it, the error
\* argument and the position that follows.
Site(p, l) ==
    CASE p = "fetch_open"      -> [stage |-> "fetch_repo", open |-> TRUE, fresh |-> TRUE, before |-> FALSE, after |-> FALSE, err |-> NullStr, next |-> "download"]
      [] p = "fetch_close"     -> [stage |-> "fetch_repo", open |-> FALSE, fresh |-> FALSE, before |-> FALSE, after |-> FALSE, err |-> NullStr, next |-> "osv_open"]
      [] p = "osv_open"        -> [stage |-> "sca_osv", open |-> TRUE, fresh |-> TRUE, before |-> FALSE, after |-> FALSE, err |-> NullStr, next |-> "semgrep_open"]
      [] p = "semgrep_open"    -> [stage |-> "sast_semgrep", open |-> TRUE, fresh |-> FALSE, before |-> FALSE, after |-> FALSE, err |-> NullStr, next |-> "pair"]
      [] p = "osv_close"       -> [stage |-> "sca_osv", open |-> FALSE, fresh |-> FALSE, before |-> TRUE, after |-> FALSE, err |-> ErrOf(l.osv), next |-> "semgrep_close"]
      [] p = "semgrep_close"   -> [stage |-> "sast_semgrep", open |-> FALSE, fresh |-> FALSE, before |-> FALSE, after |-> FALSE, err |-> ErrOf(l.semgrep), next |-> "codeql_open"]
      [] p = "codeql_open"     -> [stage |-> "semantic_codeql", open |-> TRUE, fresh |-> TRUE, before |-> FALSE, after |-> FALSE, err |-> NullStr, next |-> "codeql_run"]
      [] p = "codeql_close"    -> [stage |-> "semantic_codeql", open |-> FALSE, fresh |-> FALSE, before |-> FALSE, after |-> TRUE, err |-> ErrOf(l.codeql), next |-> "sonar_open"]
      [] p = "sonar_open"      -> [stage |-> "sonarqube_publish", open |-> TRUE, fresh |-> TRUE, before |-> FALSE, after |-> FALSE, err |-> NullStr, next |-> "sonar_run"]
      [] p = "sonar_close"     -> [stage |-> "sonarqube_publish", open |-> FALSE, fresh |-> FALSE, before |-> FALSE, after |-> FALSE, err |-> ErrOf(l.sonar), next |-> "normalize_open"]
      [] p = "normalize_open"  -> [stage |-> "normalize", open |-> TRUE, fresh |-> TRUE, before |-> FALSE, after |-> FALSE, err |-> NullStr, next |-> "normalize_parse"]
      [] p = "normalize_close" -> [stage |-> "normalize", open |-> FALSE, fresh |-> FALSE, before |-> FALSE, after |-> FALSE, err |-> NullStr, next |-> "finalize_open"]
      [] p = "finalize_open"   -> [stage |-> "finalize", open |-> TRUE, fresh |-> TRUE, before |-> FALSE, after |-> FALSE, err |-> NullStr, next |-> "finalize_tx"]
      [] OTHER                 -> [stage |-> "finalize", open |-> FALSE, fresh |-> FALSE, before |-> FALSE, after |-> FALSE, err |-> NullStr, next |-> "cleanup"]

StagePositions == {"fetch_open", "fetch_close", "osv_open", "semgrep_open", "osv_close",
                   "semgrep_close", "codeql_open", "codeql_close", "sonar_open",
                   "sonar_close", "normalize_open", "normalize_close", "finalize_open",
                   "finalize_close"}

DbError == "database error"
JobTimeout == "Job timeout"

\* One call of _record_stage (worker.py 42-53) with the statements around it:
\* the timeout_check of worker.py 122 before the call that closes sca_osv, and
\* the timeout_check of worker.py 130 after the call that closes semantic_codeql.
RecordStage(d) ==
    /\ pc[d] \in StagePositions
    /\ LET l == loc[d]
           r == l.scan_id
           site == Site(pc[d], l)
           t0 == IF site.fresh THEN now ELSE l.stage_start
       IN  IF site.before /\ TimedOut(l.started_global, now)
           THEN /\ pc' = [pc EXCEPT ![d] = "except"]
                /\ loc' = [loc EXCEPT ![d].err = JobTimeout]
                /\ UNCHANGED <<faults, runs, stages>>
           ELSE \E ok \in TxOutcomes :
                /\ faults' = Spend(ok)
                /\ IF ok
                   THEN /\ runs' = [runs EXCEPT ![r] = StageOnRun(@, site.stage)]
                        /\ stages' = [stages EXCEPT ![r] =
                                         IF site.open THEN OpenStage(@, site.stage, t0)
                                         ELSE CloseStage(@, site.stage, now, site.err)]
                        /\ IF site.after /\ TimedOut(l.started_global, now)
                           THEN /\ pc' = [pc EXCEPT ![d] = "except"]
                                /\ loc' = [loc EXCEPT ![d].err = JobTimeout, ![d].stage_start = t0]
                           ELSE /\ pc' = [pc EXCEPT ![d] = site.next]
                                /\ loc' = [loc EXCEPT ![d].stage_start = t0]
                   ELSE /\ pc' = [pc EXCEPT ![d] = "except"]
                        /\ loc' = [loc EXCEPT ![d].err = DbError]
                        /\ UNCHANGED <<runs, stages>>
    /\ UNCHANGED <<now, env, findings, artifacts, lock, claimedBy, invokedBy, launched, scratch, call, ret>>

\* -------------------------------------------- worker.py: _run_scan_job
Raise(d, l, msg) ==
    /\ pc' = [pc EXCEPT ![d] = "except"]
    /\ loc' = [loc EXCEPT ![d] = [l EXCEPT !.err = msg]]

Goto(d, l, p) ==
    /\ pc' = [pc EXCEPT ![d] = p]
    /\ loc' = [loc EXCEPT ![d] = l]

\* worker.py 72-74
RepoNotFoundRow(row, t) ==
    [row EXCEPT !.status = "failed", !.error_message = "repo not found", !.ended_at = t]

\* main's call (worker.py 227), started_global (worker.py 59) and the first
\* transaction (worker.py 66-79), which reads the run and its repo.
LoadRun(d) ==
    /\ pc[d] = "job"
    /\ LET r == loc[d].scan_id
           l == [loc[d] EXCEPT !.started_global = now]
       IN  /\ invokedBy' = [invokedBy EXCEPT ![r] = @ \cup {d}]
           /\ \E ok \in TxOutcomes, found \in env.repo :
                /\ faults' = Spend(ok)
                /\ IF ~ok
                   THEN Raise(d, l, DbError) /\ UNCHANGED runs
                   ELSE IF ~found
                   THEN /\ runs' = [runs EXCEPT ![r] = RepoNotFoundRow(@, now)]
                        /\ Goto(d, l, "cleanup")
                   ELSE Goto(d, l, "token") /\ UNCHANGED runs
    /\ UNCHANGED <<now, env, stages, findings, artifacts, lock, claimedBy, launched, scratch, call, ret>>

TokenError == "GitHub token failed: 500"

\* The token error is noted but the engine goes on to fetch_repo.
GetTokenDeferred(d) ==
    /\ pc[d] = "token"
    /\ \E issued \in env.token :
        IF ~issued THEN Goto(d, [loc[d] EXCEPT !.err = TokenError], "fetch_open")
        ELSE IF TimedOut(loc[d].started_global, now) THEN Raise(d, loc[d], JobTimeout)
        ELSE Goto(d, loc[d], "fetch_open")
    /\ UNCHANGED <<now, env, faults, runs, stages, findings, artifacts, lock,
                   claimedBy, invokedBy, launched, scratch, call, ret>>

\* get_installation_token and timeout_check (worker.py 81-82)
GetToken(d) ==
    /\ pc[d] = "token"
    /\ \E issued \in env.token :
        IF ~issued THEN Raise(d, loc[d], TokenError)
        ELSE IF TimedOut(loc[d].started_global, now) THEN Raise(d, loc[d], JobTimeout)
        ELSE Goto(d, loc[d], "fetch_open")
    /\ UNCHANGED <<now, env, faults, runs, stages, findings, artifacts, lock,
                   claimedBy, invokedBy, launched, scratch, call, ret>>

ArchiveTooLarge == "Archive exceeds max size (262144 bytes)"

\* _download_repo_archive and timeout_check (worker.py 86-87)
Download(d) ==
    /\ pc[d] = "download"
    /\ \E size \in env.sizes :
        LET l == [loc[d] EXCEPT !.archive_size = size]
        IN  IF DownloadRepoArchive(size) = NULL THEN Raise(d, l, ArchiveTooLarge)
            ELSE IF TimedOut(l.started_global, now) THEN Raise(d, l, JobTimeout)
            ELSE Goto(d, l, "extract")
    /\ UNCHANGED <<now, env, faults, runs, stages, findings, artifacts, lock,
                   claimedBy, invokedBy, launched, scratch, call, ret>>

ExtractError == "not a gzip file"

\* tempfile.mkdtemp (worker.py 88) makes a directory under a name that does not
\* exist yet: the names it can return.
Mkdtemp == {n \in env.tmp : scratch[n] = NoRun}

\* mkdtemp, the archive written and extracted, work_dir (worker.py 88-95).
\* dirOsv: the path of work_dir contains "osv".
Extract(d) ==
    /\ pc[d] = "extract"
    /\ \E good \in env.extract, dirOsv \in env.dirOsv, dir \in Mkdtemp :
        LET l == [loc[d] EXCEPT !.tmpdir = dir, !.archive_size = NULL]
        IN  /\ scratch' = [scratch EXCEPT ![dir] = l.scan_id]
            /\ IF ~good THEN Raise(d, l, ExtractError)
               ELSE Goto(d, [l EXCEPT !.dirOsv = dirOsv], "fetch_close")
    /\ UNCHANGED <<now, env, faults, runs, stages, findings, artifacts, lock,
                   claimedBy, invokedBy, launched, call, ret>>

\* worker.py 116: path and "osv" in path
IsOsvPath(path) == path # NoPath /\ (path.dirOsv \/ path.file = "osv.sarif")

\* worker.py 115-119: where as_completed's loop puts one future's result
Assign(l, res) ==
    IF IsOsvPath(res.path) THEN [l EXCEPT !.osv = res] ELSE [l EXCEPT !.semgrep = res]

\* The fan-out (worker.py 110-121): the two drivers run on two threads; the
\* loop takes their results in the order in which they finish.
PairStart(d) ==
    /\ pc[d] = "pair"
    /\ Goto(d, [loc[d] EXCEPT !.pend = {"osv", "semgrep"}], "pair_wait")
    /\ launched' = [launched EXCEPT ![loc[d].scan_id] = @ \cup {"osv", "semgrep"}]
    /\ UNCHANGED <<now, env, faults, runs, stages, findings, artifacts, lock,
                   claimedBy, invokedBy, scratch, call, ret>>

\* The loop is left as soon as the first of the two futures has completed.
PairResultFirstOnly(d) ==
    /\ pc[d] = "pair_wait"
    /\ \E f \in loc[d].pend, child \in env.children :
       \E shape \in Shapes(child), content \in Results(child) :
        LET l0 == loc[d]
            res == IF f = "osv" THEN RunOsv(l0.dirOsv, child) ELSE RunSemgrep(l0.dirOsv, child)
            name == IF f = "osv" THEN "osv.sarif" ELSE "semgrep.sarif"
            l1 == [l0 EXCEPT !.files[name] = FileAfter(f, child, shape, content), !.pend = @ \ {f},
                             !.fut[f] = res]
        IN  Goto(d, Assign(l1, res), "osv_close")
    /\ UNCHANGED <<now, env, faults, runs, stages, findings, artifacts, lock,
                   claimedBy, invokedBy, launched, scratch, call, ret>>

PairResult(d) ==
    /\ pc[d] = "pair_wait"
    /\ \E f \in loc[d].pend, child \in env.children :
       \E shape \in Shapes(child), content \in Results(child) :
        LET l0 == loc[d]
            res == IF f = "osv" THEN RunOsv(l0.dirOsv, child) ELSE RunSemgrep(l0.dirOsv, child)
            name == IF f = "osv" THEN "osv.sarif" ELSE "semgrep.sarif"
            l1 == [l0 EXCEPT !.files[name] = FileAfter(f, child, shape, content), !.pend = @ \ {f},
                             !.fut[f] = res]
            l2 == Assign(l1, res)
        IN  Goto(d, l2, IF l2.pend = {} THEN "osv_close" ELSE "pair_wait")
    /\ UNCHANGED <<now, env, faults, runs, stages, findings, artifacts, lock,
                   claimedBy, invokedBy, launched, scratch, call, ret>>

\* run_codeql (worker.py 128); childEnv is the environment its children got.
CodeqlRun(d) ==
    /\ pc[d] = "codeql_run"
    /\ \E create \in env.children, analyze \in env.children :
       \E shape \in Shapes(analyze), content \in Results(analyze) :
        LET l0 == loc[d]
            res == RunCodeql(l0.dirOsv, create, analyze)
            ran == RunChild(create).ok
            l1 == [l0 EXCEPT !.codeql = res,
                             !.childEnv = ChildEnv(env.environ, CodeqlEnv(env.environ)),
                             !.files["codeql.sarif"] =
                                 IF ran THEN FileAfter("codeql", analyze, shape, content) ELSE NoDoc]
        IN  Goto(d, l1, "codeql_close")
    /\ launched' = [launched EXCEPT ![loc[d].scan_id] = @ \cup {"codeql"}]
    /\ UNCHANGED <<now, env, faults, runs, stages, findings, artifacts, lock,
                   claimedBy, invokedBy, scratch, call, ret>>

\* run_sonar (worker.py 135)
SonarRun(d) ==
    /\ pc[d] = "sonar_run"
    /\ \E child \in env.children :
        Goto(d, [loc[d] EXCEPT !.sonar = RunSonar(env.environ, child)], "sonar_close")
    /\ launched' = [launched EXCEPT ![loc[d].scan_id] = @ \cup {"sonar"}]
    /\ UNCHANGED <<now, env, faults, runs, stages, findings, artifacts, lock,
                   claimedBy, invokedBy, scratch, call, ret>>

\* The loop of worker.py 142-147 over (tool, path): the files that exist, in
\* the order osv, semgrep, codeql.
ToolPaths(l) == <<[tool |-> "osv", name |-> "osv.sarif", path |-> l.osv.path],
                  [tool |-> "semgrep", name |-> "semgrep.sarif", path |-> l.semgrep.path],
                  [tool |-> "codeql", name |-> "codeql.sarif", path |-> l.codeql.path]>>

\* worker.py 143, 171: path and os.path.isfile(path)
IsFile(l, path) == path # NoPath /\ l.files[path.file].kind # "absent"

RECURSIVE AllFindings(_, _)
AllFindings(l, i) ==
    IF i > 3 THEN <<>>
    ELSE LET tp == ToolPaths(l)[i]
         IN  (IF IsFile(l, tp.path) THEN ParseSarifToFindings(l.files[tp.path.file], tp.tool)
              ELSE <<>>) \o AllFindings(l, i + 1)

RECURSIVE SarifDocs(_, _)
SarifDocs(l, i) ==
    IF i > 3 THEN <<>>
    ELSE LET tp == ToolPaths(l)[i]
         IN  (IF IsFile(l, tp.path) THEN <<l.files[tp.path.file]>> ELSE <<>>)
             \o SarifDocs(l, i + 1)

AnyParseRaises(l) ==
    \E i \in 1..3 : LET tp == ToolPaths(l)[i]
                    IN  IsFile(l, tp.path) /\ ParseRaises(l.files[tp.path.file])

ParseError == "'list' object has no attribute 'get'"

\* worker.py 140-150: the findings of every available artifact, and the merged
\* file when there is something to merge.
NormalizeParse(d) ==
    /\ pc[d] = "normalize_parse"
    /\ LET l == loc[d]
       IN  IF AnyParseRaises(l) THEN Raise(d, l, ParseError)
           ELSE Goto(d, [l EXCEPT !.all_findings = AllFindings(l, 1),
                                  !.files["merged.sarif"] = MergeSarifRuns(SarifDocs(l, 1))],
                     "normalize_add")
    /\ UNCHANGED <<now, env, faults, runs, stages, findings, artifacts, lock,
                   claimedBy, invokedBy, launched, scratch, call, ret>>

\* session.add (worker.py 153, 174, 178): the rows stay in the session until
\* the commit; the committed table is what it was.
SessionAutocommit(table, rows) == table \o rows

SessionAdd(table, rows) == table

\* worker.py 170-178: the artifact rows, the per-tool ones and merged.sarif
RECURSIVE ToolArtifacts(_, _)
ToolArtifacts(l, i) ==
    IF i > 3 THEN <<>>
    ELSE LET tp == ToolPaths(l)[i]
         IN  (IF IsFile(l, tp.path)
              THEN <<[name |-> tp.name, content |-> l.files[tp.path.file]]>> ELSE <<>>)
             \o ToolArtifacts(l, i + 1)

ArtifactRows(l) ==
    ToolArtifacts(l, 1)
    \o (IF l.files["merged.sarif"].kind # "absent"
        THEN <<[name |-> "merged.sarif", content |-> l.files["merged.sarif"]]>> ELSE <<>>)

\* worker.py 151-169: the normalize transaction adds the findings ...
NormalizeAddFindings(d) ==
    /\ pc[d] = "normalize_add"
    /\ LET l == loc[d]
           r == l.scan_id
       IN  /\ findings' = [findings EXCEPT ![r] = SessionAdd(@, l.all_findings)]
           /\ Goto(d, [l EXCEPT !.sessFindings = l.all_findings], "normalize_add2")
    /\ UNCHANGED <<now, env, faults, runs, stages, artifacts, lock,
                   claimedBy, invokedBy, launched, scratch, call, ret>>

\* ... then the artifacts (worker.py 170-178) ...
NormalizeAddArtifacts(d) ==
    /\ pc[d] = "normalize_add2"
    /\ LET l == loc[d]
           r == l.scan_id
       IN  /\ artifacts' = [artifacts EXCEPT ![r] = SessionAdd(@, ArtifactRows(l))]
           /\ Goto(d, [l EXCEPT !.sessArtifacts = ArtifactRows(l)], "normalize_commit")
    /\ UNCHANGED <<now, env, faults, runs, stages, findings, lock,
                   claimedBy, invokedBy, launched, scratch, call, ret>>

\* ... and commits them together, or none of them (db.py 59-62).
NormalizeCommit(d) ==
    /\ pc[d] = "normalize_commit"
    /\ \E ok \in TxOutcomes :
        LET l == [loc[d] EXCEPT !.sessFindings = <<>>, !.sessArtifacts = <<>>]
            r == l.scan_id
        IN  /\ faults' = Spend(ok)
            /\ IF ok
               THEN /\ findings' = [findings EXCEPT ![r] = @ \o loc[d].sessFindings]
                    /\ artifacts' = [artifacts EXCEPT ![r] = @ \o loc[d].sessArtifacts]
                    /\ Goto(d, l, "normalize_close")
               ELSE /\ Raise(d, l, DbError)
                    /\ UNCHANGED <<findings, artifacts>>
    /\ UNCHANGED <<now, env, runs, stages, lock, claimedBy, invokedBy, launched, scratch, call, ret>>

Tag(res) == IF res.ok THEN "ok" ELSE "skip"

\* ended_at copied from the row's created_at instead of the clock
CompletedRowEndsAtCreation(row, l, t) ==
    [row EXCEPT !.status = "completed", !.ended_at = row.created_at, !.current_stage = "finalize",
                !.result_summary = [n |-> Len(l.all_findings), osv |-> Tag(l.osv),
                                    semgrep |-> Tag(l.semgrep), codeql |-> Tag(l.codeql)]]

\* worker.py 185-188
CompletedRow(row, l, t) ==
    [row EXCEPT !.status = "completed", !.ended_at = t, !.current_stage = "finalize",
                !.result_summary = [n |-> Len(l.all_findings), osv |-> Tag(l.osv),
                                    semgrep |-> Tag(l.semgrep), codeql |-> Tag(l.codeql)]]

\* The finalize transaction (worker.py 183-188)
Finalize(d) ==
    /\ pc[d] = "finalize_tx"
    /\ \E ok \in TxOutcomes :
        LET l == loc[d]
            r == l.scan_id
        IN  /\ faults' = Spend(ok)
            /\ IF ok
               THEN /\ runs' = [runs EXCEPT ![r] = CompletedRow(@, l, now)]
                    /\ Goto(d, l, "finalize_close")
               ELSE /\ Raise(d, l, DbError)
                    /\ UNCHANGED runs
    /\ UNCHANGED <<now, env, stages, findings, artifacts, lock, claimedBy, invokedBy, launched, scratch, call, ret>>

FailedRowKeepsStatus(row, msg, t) == [row EXCEPT !.error_message = msg, !.ended_at = t]

\* worker.py 196-198
FailedRow(row, msg, t) ==
    [row EXCEPT !.status = "failed", !.error_message = msg, !.ended_at = t]

\* The handler (worker.py 190-200): a best-effort transaction that marks the
\* run failed; an error of that transaction is swallowed.
Except(d) ==
    /\ pc[d] = "except"
    /\ \E ok \in TxOutcomes :
        LET l == loc[d]
            r == l.scan_id
        IN  /\ faults' = Spend(ok)
            /\ IF ok
               THEN runs' = [runs EXCEPT ![r] = FailedRow(@, l.err, now)]
               ELSE UNCHANGED runs
            /\ Goto(d, l, "cleanup")
    /\ UNCHANGED <<now, env, stages, findings, artifacts, lock, claimedBy, invokedBy, launched, scratch, call, ret>>

\* The directory is left where it is.
RmtreeSkipped(fs, dir) == fs

\* worker.py 202-204: if tmpdir and os.path.isdir(tmpdir): shutil.rmtree(tmpdir)
Rmtree(fs, dir) ==
    IF dir # NoDir /\ fs[dir] # NoRun THEN [fs EXCEPT ![dir] = NoRun] ELSE fs

\* finally (worker.py 201-206), the return to main and its continue (228)
Cleanup(d) ==
    /\ pc[d] = "cleanup"
    /\ scratch' = Rmtree(scratch, loc[d].tmpdir)
    /\ Goto(d, InitLocals, "poll")
    /\ UNCHANGED <<now, env, faults, runs, stages, findings, artifacts, lock,
                   claimedBy, invokedBy, launched, call, ret>>

Engine(d) ==
    \/ LoadRun(d) \/ GetToken(d) \/ RecordStage(d) \/ Download(d) \/ Extract(d)
    \/ PairStart(d) \/ PairResult(d) \/ CodeqlRun(d) \/ SonarRun(d)
    \/ NormalizeParse(d) \/ NormalizeAddFindings(d) \/ NormalizeAddArtifacts(d)
    \/ NormalizeCommit(d) \/ Finalize(d) \/ Except(d) \/ Cleanup(d)

Main(d) == ClaimSelect(d) \/ ClaimCommit(d) \/ Sleep(d)

Proc(d) == Main(d) \/ Engine(d)

Next == Enqueue \/ Tick \/ \E d \in Dispatchers : Proc(d)

\* The dispatcher process is killed, anywhere in main or in the engine
\* (worker.py 209-231 has no handler for it and finally does not run), and is
\* started again: its locals are gone, the transaction it had open is rolled
\* back by the catalog store, which releases its row locks; committed rows and
\* the scratch directory stay.
Crash(d) ==
    /\ pc[d] # "off"
    /\ pc' = [pc EXCEPT ![d] = "poll"]
    /\ loc' = [loc EXCEPT ![d] = InitLocals]
    /\ lock' = [q \in RunIds |-> IF lock[q] = d THEN 0 ELSE lock[q]]
    /\ UNCHANGED <<now, env, faults, runs, stages, findings, artifacts,
                   claimedBy, invokedBy, launched, scratch, call, ret>>

\* ------------------------------------------- sarif_normalize.py on its own
\* The functions of sarif_normalize.py called directly, as a test or another
\* caller would: `call` holds the function and its arguments, `ret` what it
\* returned.
Returned(value) == [done |-> TRUE, value |-> value]

CallNormalizeSeverity ==
    /\ call.fn = "severity" /\ ~ret.done
    /\ ret' = Returned(NormalizeSeverity(call.args.tool, call.args.raw, call.args.cvss))
    /\ UNCHANGED <<now, env, faults, runs, stages, findings, artifacts, lock, pc, loc,
                   claimedBy, invokedBy, launched, scratch, call>>

\* merge_sarif_runs on the inputs A, B, C: on [A], on [A, A], on [A, B, C],
\* and on lists that hold the output of an earlier merge.
CallMergeSarifRuns ==
    /\ call.fn = "merge" /\ ~ret.done
    /\ LET A == call.args[1]
           B == call.args[2]
           C == call.args[3]
       IN  ret' = Returned([a    |-> MergeSarifRuns(<<A>>),
                            aa   |-> MergeSarifRuns(<<A, A>>),
                            abc  |-> MergeSarifRuns(<<A, B, C>>),
                            ab_c |-> MergeSarifRuns(<<MergeSarifRuns(<<A, B>>), C>>),
                            a_bc |-> MergeSarifRuns(<<A, MergeSarifRuns(<<B, C>>)>>)])
    /\ UNCHANGED <<now, env, faults, runs, stages, findings, artifacts, lock, pc, loc,
                   claimedBy, invokedBy, launched, scratch, call>>

\* What one call of parse_sarif_to_findings gives: the records, or the
\* exception of sarif_normalize.py 50.
Parsed(doc, tool) ==
    [raised |-> ParseRaises(doc),
     findings |-> IF ParseRaises(doc) THEN <<>> ELSE ParseSarifToFindings(doc, tool)]

\* parse_sarif_to_findings on a file, and later once more on the same file.
CallParseSarifToFindings ==
    /\ call.fn = "parse" /\ ~ret.done
    /\ ret' = Returned(<<Parsed(call.args.doc, call.args.tool)>>)
    /\ UNCHANGED <<now, env, faults, runs, stages, findings, artifacts, lock, pc, loc,
                   claimedBy, invokedBy, launched, scratch, call>>

CallParseAgain ==
    /\ call.fn = "parse" /\ ret.done /\ Len(ret.value) = 1
    /\ ret' = Returned(Append(ret.value, Parsed(call.args.doc, call.args.tool)))
    /\ UNCHANGED <<now, env, faults, runs, stages, findings, artifacts, lock, pc, loc,
                   claimedBy, invokedBy, launched, scratch, call>>

NormNext ==
    \/ Next
    \/ CallNormalizeSeverity \/ CallMergeSarifRuns
    \/ CallParseSarifToFindings \/ CallParseAgain

CrashNext == Next \/ \E d \in Dispatchers : Crash(d)

\* ---------------------------------------------- scanner_runner.py on its own
\* The four drivers called directly on a work directory, with a child process
\* of any ending: `call` holds the driver and its arguments, `ret` the result.
CallRunOsv ==
    /\ call.fn = "run_osv" /\ ~ret.done
    /\ ret' = Returned(RunOsv(call.args.dirOsv, call.args.child))
    /\ UNCHANGED <<now, env, faults, runs, stages, findings, artifacts, lock, pc, loc,
                   claimedBy, invokedBy, launched, scratch, call>>

CallRunSemgrep ==
    /\ call.fn = "run_semgrep" /\ ~ret.done
    /\ ret' = Returned(RunSemgrep(call.args.dirOsv, call.args.child))
    /\ UNCHANGED <<now, env, faults, runs, stages, findings, artifacts, lock, pc, loc,
                   claimedBy, invokedBy, launched, scratch, call>>

\* run_codeql: its result and the steps it took to get there.
CallRunCodeql ==
    /\ call.fn = "run_codeql" /\ ~ret.done
    /\ ret' = Returned([res |-> RunCodeql(call.args.dirOsv, call.args.create, call.args.analyze),
                        steps |-> CodeqlSteps(call.args.db, call.args.create)])
    /\ UNCHANGED <<now, env, faults, runs, stages, findings, artifacts, lock, pc, loc,
                   claimedBy, invokedBy, launched, scratch, call>>

CallRunSonar ==
    /\ call.fn = "run_sonar" /\ ~ret.done
    /\ ret' = Returned(RunSonar(call.args.environ, call.args.child))
    /\ UNCHANGED <<now, env, faults, runs, stages, findings, artifacts, lock, pc, loc,
                   claimedBy, invokedBy, launched, scratch, call>>

DriverNext == CallRunOsv \/ CallRunSemgrep \/ CallRunCodeql \/ CallRunSonar

\* ------------------------------------------------------------ initial states
Child(exit, out, file) == [exit |-> exit, out |-> out, file |-> file]

ChildGood == Child("zero", "", "full")
ChildMissing == Child("notfound", "", "absent")
ChildNoDeps == Child("nonzero", "no lockfile found", "absent")

Environ(names) == [k \in names |-> "set"]

Store ==
    /\ now = 0
    /\ runs = [r \in RunIds |-> AbsentRow]
    /\ stages = [r \in RunIds |-> <<>>]
    /\ findings = [r \in RunIds |-> <<>>]
    /\ artifacts = [r \in RunIds |-> <<>>]
    /\ lock = [r \in RunIds |-> 0]
    /\ loc = [d \in Dispatchers |-> InitLocals]
    /\ claimedBy = [r \in RunIds |-> {}]
    /\ invokedBy = [r \in RunIds |-> {}]
    /\ launched = [r \in RunIds |-> {}]
    /\ scratch = [n \in TmpNames |-> NoRun]

\* The worker on its own: no function is called from outside the pipeline.
Tables == Store /\ call = Idle /\ ret = NoRet

\* Several dispatchers on one catalog store, with scanners that work.
Init ==
    /\ Tables
    /\ pc = [d \in Dispatchers |-> "poll"]
    /\ faults = 0
    /\ env = [maxRuns |-> NumRuns, maxTime |-> 1,
              token |-> {TRUE, FALSE}, repo |-> {TRUE}, sizes |-> {MAX_ARCHIVE_BYTES},
              extract |-> {TRUE}, dirOsv |-> {FALSE},
              children |-> {ChildGood}, shapes |-> {"one"},
              environ |-> Environ({"PATH"}), tmp |-> TmpNames,
              results |-> {DefaultResult}]

Spec == Init /\ [][Next]_vars

\* One dispatcher and one run, with everything the outside world can answer.
PipeInit ==
    /\ Tables
    /\ pc = [d \in Dispatchers |-> IF d = 1 THEN "poll" ELSE "off"]
    /\ faults = MaxFaults
    /\ env = [maxRuns |-> 1, maxTime |-> MaxTime,
              token |-> {TRUE, FALSE}, repo |-> {TRUE, FALSE},
              sizes |-> {0} \cup ((MAX_ARCHIVE_BYTES - 1)..(MAX_ARCHIVE_BYTES + MaxOver)),
              extract |-> {TRUE, FALSE}, dirOsv |-> {FALSE, TRUE},
              children |-> {ChildGood, ChildMissing, ChildNoDeps},
              shapes |-> {"one", "nonobject"},
              environ |-> Environ({"PATH", "CODEQL_HOME"}), tmp |-> {1},
              results |-> {DefaultResult}]

PipeSpec == PipeInit /\ [][Next]_vars

\* One dispatcher and one run on a catalog store that is available, with
\* well-formed scanner output and a clock that can pass the budget.
AvailInit ==
    /\ Tables
    /\ pc = [d \in Dispatchers |-> IF d = 1 THEN "poll" ELSE "off"]
    /\ faults = 0
    /\ env = [maxRuns |-> 1, maxTime |-> MaxTime,
              token |-> {TRUE, FALSE}, repo |-> {TRUE},
              sizes |-> {MAX_ARCHIVE_BYTES, MAX_ARCHIVE_BYTES + MaxOver},
              extract |-> {TRUE}, dirOsv |-> {FALSE},
              children |-> {ChildGood, ChildMissing, ChildNoDeps},
              shapes |-> {"one"},
              environ |-> Environ({"PATH"}), tmp |-> {1},
              results |-> {DefaultResult}]

AvailSpec == AvailInit /\ [][Next]_vars

\* One dispatcher that does not crash, a catalog store that is available and
\* external calls that all return (or raise); every step the dispatcher can
\* take is eventually taken.
LiveInit ==
    /\ Tables
    /\ pc = [d \in Dispatchers |-> IF d = 1 THEN "poll" ELSE "off"]
    /\ faults = 0
    /\ env = [maxRuns |-> NumRuns, maxTime |-> MaxTime,
              token |-> {TRUE, FALSE}, repo |-> {TRUE},
              sizes |-> {MAX_ARCHIVE_BYTES, MAX_ARCHIVE_BYTES + MaxOver},
              extract |-> {TRUE, FALSE}, dirOsv |-> {FALSE},
              children |-> {ChildGood}, shapes |-> {"one"},
              environ |-> Environ({"PATH"}), tmp |-> {1},
              results |-> {DefaultResult}]

LiveSpec == LiveInit /\ [][Next]_vars /\ \A d \in Dispatchers : WF_vars(Proc(d))

\* Either several dispatchers whose engines complete or fail on an archive
\* that does not unpack, or one dispatcher whose engine leaves by every exit
\* (PipeInit: scanner failure, a scanner file that does not parse, a catalog
\* error, the budget).
ScratchInit ==
    \/ /\ Tables
       /\ pc = [d \in Dispatchers |-> "poll"]
       /\ faults = 0
       /\ env = [maxRuns |-> NumRuns, maxTime |-> 1,
                 token |-> {TRUE}, repo |-> {TRUE}, sizes |-> {MAX_ARCHIVE_BYTES},
                 extract |-> {TRUE, FALSE}, dirOsv |-> {FALSE},
                 children |-> {ChildGood}, shapes |-> {"one"},
                 environ |-> Environ({"PATH"}), tmp |-> TmpNames,
              results |-> {DefaultResult}]
    \/ PipeInit

ScratchSpec == ScratchInit /\ [][Next]_vars

\* Dispatchers that can be killed and restarted at any point, on a catalog
\* store that is available: either one dispatcher and several runs, or
\* several dispatchers and one run.
CrashInit ==
    /\ Tables
    /\ faults = 0
    /\ \/ /\ pc = [d \in Dispatchers |-> IF d = 1 THEN "poll" ELSE "off"]
          /\ env = [maxRuns |-> NumRuns, maxTime |-> 1,
                    token |-> {TRUE, FALSE}, repo |-> {TRUE}, sizes |-> {MAX_ARCHIVE_BYTES},
                    extract |-> {TRUE}, dirOsv |-> {FALSE},
                    children |-> {ChildGood}, shapes |-> {"one"},
                    environ |-> Environ({"PATH"}), tmp |-> TmpNames,
              results |-> {DefaultResult}]
       \/ /\ pc = [d \in Dispatchers |-> "poll"]
          /\ env = [maxRuns |-> 1, maxTime |-> 1,
                    token |-> {TRUE}, repo |-> {TRUE}, sizes |-> {MAX_ARCHIVE_BYTES},
                    extract |-> {TRUE}, dirOsv |-> {FALSE},
                    children |-> {ChildGood}, shapes |-> {"one"},
                    environ |-> Environ({"PATH"}), tmp |-> TmpNames,
              results |-> {DefaultResult}]

CrashSpec == CrashInit /\ [][CrashNext]_vars

\* The inputs of the direct calls.
Tools == {"osv", "semgrep", "codeql"}
RawLevels == {NullStr, "", "error", "warning", "note", "recommendation", "none", "info",
              "ERROR", "WARNING", "INFO", "Error", "bogus"}
CvssTexts == {NullStr, "", "10.0", "9.8", "9.0", "8.9", "7.0", "6.9", "4.0", "3.9", "0",
              "-1", "nan", "abc"}
BareResult == [ruleId |-> NullStr, level |-> NullStr, cvss |-> NullStr, uri |-> NullStr,
               startLine |-> NULL, endLine |-> NULL, msg |-> NullStr]
ScoredResult == [ruleId |-> "R2", level |-> "WARNING", cvss |-> "7.0", uri |-> "b.py",
                 startLine |-> 2, endLine |-> 3, msg |-> ""]
SampleResults == {DefaultResult, BareResult, ScoredResult}
FileShapes == {"one", "pair", "noruns", "invalid", "nonobject"}

SeverityCalls ==
    {[fn |-> "severity", args |-> [tool |-> t, raw |-> l, cvss |-> c]] :
        t \in Tools \cup {"sonar"}, l \in RawLevels, c \in CvssTexts}

MergeInputs ==
    {NoDoc} \cup {DocOf(t, sh, DefaultResult) : t \in {"osv", "semgrep"}, sh \in FileShapes}

MergeCalls == {[fn |-> "merge", args |-> <<A, B, C>>] : A \in MergeInputs, B \in MergeInputs, C \in MergeInputs}

ParseCalls ==
    {[fn |-> "parse", args |-> [doc |-> DocOf(t, sh, res), tool |-> t]] :
        t \in Tools, sh \in FileShapes, res \in SampleResults}

\* The normalizer: either inside the pipeline of one run, with scanners that
\* leave well-formed, empty and unreadable files, or called directly.
NormInit ==
    \/ /\ Tables
       /\ pc = [d \in Dispatchers |-> IF d = 1 THEN "poll" ELSE "off"]
       /\ faults = 0
       /\ env = [maxRuns |-> 1, maxTime |-> 1,
                 token |-> {TRUE, FALSE}, repo |-> {TRUE}, sizes |-> {MAX_ARCHIVE_BYTES},
                 extract |-> {TRUE}, dirOsv |-> {FALSE, TRUE},
                 children |-> {ChildGood, ChildMissing},
                 shapes |-> {"one", "pair", "noruns", "invalid"},
                 environ |-> Environ({"PATH"}), tmp |-> {1},
                 results |-> {DefaultResult, ScoredResult}]
    \/ /\ Store
       /\ pc = [d \in Dispatchers |-> "off"]
       /\ faults = 0
       /\ env = [maxRuns |-> 0, maxTime |-> 1,
                 token |-> {TRUE}, repo |-> {TRUE}, sizes |-> {MAX_ARCHIVE_BYTES},
                 extract |-> {TRUE}, dirOsv |-> {FALSE},
                 children |-> {ChildGood}, shapes |-> {"one"},
                 environ |-> Environ({"PATH"}), tmp |-> {1},
                 results |-> {DefaultResult}]
       /\ call \in SeverityCalls \cup MergeCalls \cup ParseCalls
       /\ ret = NoRet

NormSpec == NormInit /\ [][NormNext]_vars

\* How a child process can end (_run, scanner_runner.py 13-30), what it can
\* have printed, and the state of the driver's output file afterwards.
ChildExits == {"zero", "nonzero", "timeout", "notfound"}
ChildOuts == {"", "boom", "no lockfile found"}
ChildFiles == {"absent", "empty", "full"}
Children == {Child(e, o, f) : e \in ChildExits, o \in ChildOuts, f \in ChildFiles}

DriverCalls ==
    {[fn |-> "run_osv", args |-> [dirOsv |-> p, child |-> c]] : p \in BOOLEAN, c \in Children}
    \cup {[fn |-> "run_semgrep", args |-> [dirOsv |-> p, child |-> c]] :
             p \in BOOLEAN, c \in Children}
    \cup {[fn |-> "run_codeql", args |-> [dirOsv |-> FALSE, db |-> b, create |-> c, analyze |-> a]] :
             b \in BOOLEAN, c \in Children, a \in Children}
    \cup {[fn |-> "run_sonar", args |-> [environ |-> Environ(n), child |-> c]] :
             n \in {{"PATH"}, {"PATH", "SONAR_HOST_URL", "SONAR_TOKEN"}}, c \in Children}

\* The drivers called directly, outside the pipeline.
DriverInit ==
    /\ Store
    /\ pc = [d \in Dispatchers |-> "off"]
    /\ faults = 0
    /\ env = [maxRuns |-> 0, maxTime |-> 1,
              token |-> {TRUE}, repo |-> {TRUE}, sizes |-> {MAX_ARCHIVE_BYTES},
              extract |-> {TRUE}, dirOsv |-> {FALSE},
              children |-> {ChildGood}, shapes |-> {"one"},
              environ |-> Environ({"PATH"}), tmp |-> {1},
              results |-> {DefaultResult}]
    /\ call \in DriverCalls
    /\ ret = NoRet

DriverSpec == DriverInit /\ [][DriverNext]_vars

\* ------------------------------------------------------------------ claims
Owner(r) == {d \in Dispatchers : loc[d].scan_id = r /\ pc[d] \notin {"poll", "claim_commit", "sleep", "off"}}

\* C1: each run is claimed by at most one dispatcher, and the pipeline engine
\* is invoked for a run by at most one dispatcher, in every interleaving of the
\* claim transactions.
C1_ClaimedOnce ==
    \A r \in RunIds : Cardinality(claimedBy[r]) <= 1 /\ Cardinality(invokedBy[r]) <= 1
                      /\ Cardinality(Owner(r)) <= 1

\* Two dispatchers are inside the engine at once, each for the run it claimed.
C1_Witness ==
    \E d1, d2 \in Dispatchers :
        /\ d1 # d2
        /\ Owner(loc[d1].scan_id) = {d1} /\ Owner(loc[d2].scan_id) = {d2}
        /\ d1 \in invokedBy[loc[d1].scan_id] /\ d2 \in invokedBy[loc[d2].scan_id]

StatusStep(a, b) ==
    \/ a = b
    \/ a = "absent" /\ b = "queued"
    \/ a = "queued" /\ b = "running"
    \/ a = "running" /\ b \in Terminal

\* C2: a run's status only changes along queued -> running -> completed or
\* queued -> running -> failed, whatever the dispatcher and the pipeline do,
\* catalog errors included.
C2_Monotone == [][\A r \in RunIds : StatusStep(runs[r].status, runs'[r].status)]_vars

\* C3: once a run is completed or failed, no step changes its status,
\* started_at, ended_at, error_message or current_stage.
C3_TerminalFrozen ==
    [][\A r \in RunIds : runs[r].status \in Terminal =>
          /\ runs'[r].status = runs[r].status
          /\ runs'[r].started_at = runs[r].started_at
          /\ runs'[r].ended_at = runs[r].ended_at
          /\ runs'[r].error_message = runs[r].error_message
          /\ runs'[r].current_stage = runs[r].current_stage]_vars

\* C4: in every committed state a queued run has null started_at, a running
\* run has started_at set and null ended_at, and a completed or failed run
\* has ended_at set.
C4_Timestamps ==
    \A r \in RunIds :
        /\ runs[r].status = "queued" => runs[r].started_at = NULL
        /\ runs[r].status = "running" => runs[r].started_at # NULL /\ runs[r].ended_at = NULL
        /\ runs[r].status \in Terminal => runs[r].ended_at # NULL

\* A claimed run is visible as running, before the engine has touched it.
C4_Witness ==
    \E d \in Dispatchers :
        /\ pc[d] = "job"
        /\ runs[loc[d].scan_id].status = "running"
        /\ runs[loc[d].scan_id].started_at # NULL

\* C5: with a dispatcher that does not crash, an available catalog store and
\* external calls that return, every queued run is eventually claimed and
\* eventually completed or failed.
C5_Live ==
    \A r \in RunIds :
        (runs[r].status = "queued") ~> (claimedBy[r] # {} /\ runs[r].status \in Terminal)

\* Every run was enqueued, claimed and brought to a terminal state.
C5_Witness ==
    \A r \in RunIds : claimedBy[r] # {} /\ runs[r].status \in Terminal

StageClosed(r, stage) ==
    \E i \in 1..Len(stages[r]) : stages[r][i].stage = stage /\ stages[r][i].ended_at # NULL

\* C6: when fetch_repo succeeded, the budget was not exceeded and the catalog
\* store raised no error, the run ends completed whatever the four drivers
\* returned.
C6_DriversNonFatal ==
    \A d \in Dispatchers :
        (/\ pc[d] = "cleanup"
         /\ faults = MaxFaults
         /\ StageClosed(loc[d].scan_id, "fetch_repo")
         /\ loc[d].err # JobTimeout)
        => runs[loc[d].scan_id].status = "completed"

\* The elapsed time was over the budget when a stage after fetch_repo opened.
OverBudgetAtBoundary(d) ==
    LET r == loc[d].scan_id
    IN  \E i \in 1..Len(stages[r]) :
            /\ stages[r][i].stage # "fetch_repo"
            /\ TimedOut(loc[d].started_global, stages[r][i].started_at)

\* C7: when the elapsed time exceeds the budget at a boundary between two
\* consecutive stages, the run ends failed with "Job timeout", not completed.
C7_BudgetAtEveryBoundary ==
    \A d \in Dispatchers :
        (pc[d] = "cleanup" /\ loc[d].scan_id # NoRun /\ OverBudgetAtBoundary(d))
        => /\ runs[loc[d].scan_id].status = "failed"
           /\ runs[loc[d].scan_id].error_message = JobTimeout

\* C8: the findings and artifacts of a run become visible in one step, and
\* then all of them: the stored rows of a run change only from none to every
\* finding and every artifact (per tool and merged) of its normalize stage.
C8_AtomicResults ==
    [][\A r \in RunIds :
          (findings'[r] # findings[r] \/ artifacts'[r] # artifacts[r]) =>
              \E d \in Owner(r) :
                  /\ findings[r] = <<>> /\ artifacts[r] = <<>>
                  /\ findings'[r] = loc[d].all_findings
                  /\ artifacts'[r] = ArtifactRows(loc[d])]_vars

\* The rows of a normalize stage with several findings and artifacts are stored.
C8_Witness ==
    \E r \in RunIds : Len(findings[r]) >= 2 /\ Len(artifacts[r]) >= 3

\* C9: when CODEQL_HOME is set for the worker, the children of the
\* semantic-SAST driver do not get it.
C9_NoCodeqlHome ==
    \A d \in Dispatchers :
        "CODEQL_HOME" \in DOMAIN env.environ => "CODEQL_HOME" \notin DOMAIN loc[d].childEnv

Aborted(d) == loc[d].err = ArchiveTooLarge

NothingScanned(r) == launched[r] = {} /\ findings[r] = <<>> /\ artifacts[r] = <<>>

\* C10 as stated: the download aborts exactly when the bytes exceed
\* MAX_ARCHIVE_BYTES, and on abort the run ends failed with the archive
\* message, no driver is invoked and nothing is stored.
C10_AbortFails ==
    \A d \in Dispatchers :
        /\ pc[d] = "extract" => loc[d].archive_size <= MAX_ARCHIVE_BYTES
        /\ Aborted(d) => loc[d].archive_size > MAX_ARCHIVE_BYTES
        /\ (pc[d] = "cleanup" /\ Aborted(d)) =>
              /\ runs[loc[d].scan_id].status = "failed"
              /\ runs[loc[d].scan_id].error_message = ArchiveTooLarge
              /\ NothingScanned(loc[d].scan_id)

\* C10 amended: as above, but the run ends failed only if the handler's
\* transaction commits; when the catalog store fails there, the run is left
\* running.
C10_AbortFailsIfRecorded ==
    \A d \in Dispatchers :
        /\ pc[d] = "extract" => loc[d].archive_size <= MAX_ARCHIVE_BYTES
        /\ Aborted(d) => loc[d].archive_size > MAX_ARCHIVE_BYTES
        /\ (pc[d] \in {"except", "cleanup"} /\ Aborted(d)) => NothingScanned(loc[d].scan_id)
        /\ (pc[d] = "cleanup" /\ Aborted(d)) =>
              \/ /\ runs[loc[d].scan_id].status = "failed"
                 /\ runs[loc[d].scan_id].error_message = ArchiveTooLarge
                 /\ runs[loc[d].scan_id].ended_at # NULL
              \/ /\ faults < MaxFaults
                 /\ runs[loc[d].scan_id].status = "running"

\* The download was aborted and the run is failed with the archive message.
C10_Witness ==
    \E d \in Dispatchers :
        /\ pc[d] = "cleanup" /\ Aborted(d)
        /\ runs[loc[d].scan_id].status = "failed"
        /\ runs[loc[d].scan_id].error_message = ArchiveTooLarge

TokenFailed(d) == loc[d].err = TokenError

\* C11 as stated: when token issuance raises, the run ends failed with the
\* error text as error_message and ended_at set; no archive is downloaded, no
\* driver is invoked and no finding or artifact is stored.
C11_TokenFails ==
    \A d \in Dispatchers :
        /\ TokenFailed(d) =>
              /\ loc[d].archive_size = NULL
              /\ stages[loc[d].scan_id] = <<>>
              /\ NothingScanned(loc[d].scan_id)
        /\ (pc[d] = "cleanup" /\ TokenFailed(d)) =>
              /\ runs[loc[d].scan_id].status = "failed"
              /\ runs[loc[d].scan_id].error_message = TokenError
              /\ runs[loc[d].scan_id].ended_at # NULL

\* C11 amended: as above, but the run ends failed only if the handler's
\* transaction commits; when the catalog store fails there, the run is left
\* running with no error_message.
C11_TokenFailsIfRecorded ==
    \A d \in Dispatchers :
        /\ TokenFailed(d) =>
              /\ loc[d].archive_size = NULL
              /\ stages[loc[d].scan_id] = <<>>
              /\ NothingScanned(loc[d].scan_id)
        /\ (pc[d] = "cleanup" /\ TokenFailed(d)) =>
              \/ /\ runs[loc[d].scan_id].status = "failed"
                 /\ runs[loc[d].scan_id].error_message = TokenError
                 /\ runs[loc[d].scan_id].ended_at # NULL
              \/ /\ faults < MaxFaults
                 /\ runs[loc[d].scan_id].status = "running"
                 /\ runs[loc[d].scan_id].error_message = NullStr

\* Token issuance raised and the run is failed with the error text.
C11_Witness ==
    \E d \in Dispatchers :
        /\ pc[d] = "cleanup" /\ TokenFailed(d)
        /\ runs[loc[d].scan_id].status = "failed"
        /\ runs[loc[d].scan_id].error_message = TokenError
        /\ runs[loc[d].scan_id].ended_at # NULL

\* C12: with a clock that does not go back, every completed or failed run has
\* created_at <= started_at <= ended_at, whichever path made it terminal.
C12_TerminalOrder ==
    \A r \in RunIds :
        runs[r].status \in Terminal =>
            /\ runs[r].created_at # NULL /\ runs[r].started_at # NULL /\ runs[r].ended_at # NULL
            /\ runs[r].created_at <= runs[r].started_at
            /\ runs[r].started_at <= runs[r].ended_at

\* A run waited in the queue and then took time: created, started and ended at
\* three different clock values.
C12_Witness ==
    \E r \in RunIds :
        /\ runs[r].status \in Terminal
        /\ runs[r].created_at < runs[r].started_at
        /\ runs[r].started_at < runs[r].ended_at

\* C13: with a single dispatcher, the run a claim selects, and the run a claim
\* commits as running, has the smallest created_at of the queued runs.
C13_ClaimsOldest ==
    [][\A d \in Dispatchers :
          /\ (pc[d] = "poll" /\ pc'[d] = "claim_commit" /\ loc'[d].scan_id # NoRun) =>
                \A q \in RunIds : runs[q].status = "queued" =>
                    runs[loc'[d].scan_id].created_at <= runs[q].created_at
          /\ (pc[d] = "claim_commit" /\ pc'[d] = "job") =>
                \A q \in RunIds : runs[q].status = "queued" =>
                    runs[loc[d].scan_id].created_at <= runs[q].created_at]_vars

\* Two runs with different created_at were both queued when the first claim
\* was made, and both have been started since.
C13_Witness ==
    \E a, b \in RunIds :
        /\ runs[a].created_at # NULL /\ runs[b].created_at # NULL
        /\ runs[a].created_at < runs[b].created_at
        /\ runs[a].started_at # NULL /\ runs[b].started_at # NULL
        /\ runs[b].created_at < runs[a].started_at
        /\ runs[a].started_at <= runs[b].started_at

Orphaned(r) == runs[r].status = "running" /\ Owner(r) = {}

\* C15: when a dispatcher crashes after committing a claim and before the run
\* is terminal, the run stays running: no step of any dispatcher, the
\* restarted one included, claims it again, invokes the engine for it or
\* changes its row, and its committed stage rows stay as they are.
C15_OrphanStaysRunning ==
    [][\A r \in RunIds :
          Orphaned(r) =>
              /\ runs'[r] = runs[r]
              /\ stages'[r] = stages[r]
              /\ claimedBy'[r] = claimedBy[r]
              /\ invokedBy'[r] = invokedBy[r]]_vars

\* A run with stage rows is orphaned, and a run claimed after it has completed.
C15_Witness ==
    \E r, q \in RunIds :
        /\ Orphaned(r) /\ stages[r] # <<>>
        /\ runs[q].status = "completed"
        /\ runs[q].started_at > runs[r].started_at

\* The runs a reader of the file finds: none when the file is absent, is no
\* JSON or has no runs array.
ReadableRuns(doc) == IF doc.kind = "object" THEN doc.runs ELSE <<>>

\* The stored artifact rows of a run that come from one tool, and the merged ones.
ToolRows(r) == SelectSeq(artifacts[r], LAMBDA a : a.name # "merged.sarif")
MergedRows(r) == SelectSeq(artifacts[r], LAMBDA a : a.name = "merged.sarif")

RECURSIVE ConcatRuns(_)
ConcatRuns(rows) ==
    IF rows = <<>> THEN <<>> ELSE ReadableRuns(Head(rows).content) \o ConcatRuns(Tail(rows))

\* The names of the rows appear in the order osv, semgrep, codeql.
InToolOrder(rows) ==
    \A i, j \in 1..Len(rows) :
        i < j => \/ rows[i].name = "osv.sarif" /\ rows[j].name # "osv.sarif"
                 \/ rows[i].name = "semgrep.sarif" /\ rows[j].name = "codeql.sarif"

\* C16: the stored artifacts of a run hold a merged.sarif exactly when the
\* runs of its per-tool artifacts, concatenated in the order osv, semgrep,
\* codeql, are not empty, and then the runs of merged.sarif are that
\* concatenation.
C16_MergedIffRuns ==
    \A r \in RunIds :
        /\ InToolOrder(ToolRows(r))
        /\ Len(MergedRows(r)) <= 1
        /\ (MergedRows(r) # <<>>) <=> (ConcatRuns(ToolRows(r)) # <<>>)
        /\ MergedRows(r) # <<>> =>
              /\ MergedRows(r)[1].content.kind = "object"
              /\ MergedRows(r)[1].content.runs = ConcatRuns(ToolRows(r))

\* Three per-tool artifacts are stored, one of them without runs, and the
\* merged artifact holds the runs of the other two.
C16_Witness ==
    \E r \in RunIds :
        /\ Len(ToolRows(r)) = 3
        /\ \E i \in 1..3 : ReadableRuns(ToolRows(r)[i].content) = <<>>
        /\ MergedRows(r) # <<>>
        /\ Len(MergedRows(r)[1].content.runs) = 2

\* C17: _normalize_severity returns one of the five bands for every tool tag,
\* raw level and cvss text, and every stored finding carries one of them.
C17_FiveBands ==
    /\ (call.fn = "severity" /\ ret.done) => ret.value \in NORMALIZED_SEVERITIES
    /\ \A r \in RunIds : \A i \in 1..Len(findings[r]) :
          findings[r][i].severity_normalized \in NORMALIZED_SEVERITIES

\* The function returned for an unknown tool tag, a level that is no level and
\* a cvss that is no number.
C17_Witness ==
    /\ call.fn = "severity" /\ ret.done
    /\ call.args.tool = "sonar" /\ call.args.raw = "bogus" /\ call.args.cvss = "abc"

\* C18: merging [A, A] gives the same runs as merging [A].
C18_MergeIdempotent ==
    (call.fn = "merge" /\ ret.done) => ret.value.aa.runs = ret.value.a.runs

\* C19: merging [A] gives A's runs, merging [A, B, C] gives the runs of A, B
\* and C in this order, and so do merging [merge(A, B), C] and merging
\* [A, merge(B, C)]; a document is written whenever there is a run.
C19_MergeConcatenates ==
    (call.fn = "merge" /\ ret.done) =>
        LET A == call.args[1]
            B == call.args[2]
            C == call.args[3]
            all == ReadableRuns(A) \o ReadableRuns(B) \o ReadableRuns(C)
        IN  /\ ret.value.a.runs = ReadableRuns(A)
            /\ ReadableRuns(A) # <<>> => ret.value.a.kind = "object"
            /\ ret.value.abc.runs = all
            /\ all # <<>> => ret.value.abc.kind = "object"
            /\ ret.value.ab_c.runs = all
            /\ ret.value.a_bc.runs = all

\* Three inputs with runs, the first unlike the others, were merged.
C19_Witness ==
    /\ call.fn = "merge" /\ ret.done
    /\ \A i \in 1..3 : ReadableRuns(call.args[i]) # <<>>
    /\ call.args[1] # call.args[2] /\ call.args[1] # call.args[3]

\* The tool tag a stored per-tool artifact was parsed with.
ToolOf(name) ==
    CASE name = "osv.sarif" -> "osv" [] name = "semgrep.sarif" -> "semgrep" [] OTHER -> "codeql"

RECURSIVE Reparsed(_)
Reparsed(rows) ==
    IF rows = <<>> THEN <<>>
    ELSE ParseSarifToFindings(Head(rows).content, ToolOf(Head(rows).name)) \o Reparsed(Tail(rows))

SameSix(f, g) ==
    /\ f.tool = g.tool /\ f.rule_id = g.rule_id /\ f.path = g.path
    /\ f.start_line = g.start_line /\ f.end_line = g.end_line /\ f.title = g.title

Joined(d) ==
    /\ pc[d] \notin {"poll", "claim_commit", "sleep", "off", "pair_wait"}
    /\ loc[d].fut.osv # NoResult /\ loc[d].fut.semgrep # NoResult

\* What the loop of worker.py 114-119 leaves in the osv and semgrep variables
\* when the future that returned `first` completes before the one that
\* returned `second`.
PairOutcome(first, second) ==
    LET l == Assign(Assign(InitLocals, first), second)
    IN  [osv |-> l.osv, semgrep |-> l.semgrep]

\* C21: the outcome recorded for the parallel pair (the values the closes of
\* sca_osv and sast_semgrep, the artifact rows and the summary are computed
\* from) is the same whichever driver finishes first: what the engine holds
\* after the loop is what either order of completion gives.
C21_OrderIndependent ==
    \A d \in Dispatchers :
        Joined(d) =>
            LET l == loc[d]
                got == [osv |-> l.osv, semgrep |-> l.semgrep]
            IN  /\ got = PairOutcome(l.fut.osv, l.fut.semgrep)
                /\ got = PairOutcome(l.fut.semgrep, l.fut.osv)

\* The row of a stage of run r (the latest one), when there is one.
HasRow(r, stage) == LatestRow(stages[r], stage) # 0

RowOf(r, stage) == stages[r][LatestRow(stages[r], stage)]

Stored(r, name) == \E i \in 1..Len(artifacts[r]) : artifacts[r][i].name = name

CommandNotFound == "command not found"

\* Every scanner binary is absent: what the three drivers return then.
AllAbsent(d) ==
    /\ loc[d].fut.osv = RunOsv(loc[d].dirOsv, ChildMissing)
    /\ loc[d].fut.semgrep = RunSemgrep(loc[d].dirOsv, ChildMissing)
    /\ loc[d].codeql = RunCodeql(loc[d].dirOsv, ChildMissing, ChildMissing)

\* C22: a failure (ok=false, message m) of the SCA driver closes the sca_osv
\* row with error_message m and stores no osv.sarif, a failure of the
\* pattern-SAST driver closes the sast_semgrep row with its m and stores no
\* semgrep.sarif; with every scanner binary absent the rows of sca_osv,
\* sast_semgrep and semantic_codeql all carry "command not found".
C22_FailureOnOwnRow ==
    \A d \in Dispatchers :
        Joined(d) =>
            LET l == loc[d]
                r == l.scan_id
            IN  /\ (StageClosed(r, "sca_osv") /\ ~l.fut.osv.ok) =>
                      /\ RowOf(r, "sca_osv").error_message = l.fut.osv.msg
                      /\ ~Stored(r, "osv.sarif")
                /\ (StageClosed(r, "sast_semgrep") /\ ~l.fut.semgrep.ok) =>
                      /\ RowOf(r, "sast_semgrep").error_message = l.fut.semgrep.msg
                      /\ ~Stored(r, "semgrep.sarif")
                /\ AllAbsent(d) =>
                      \A stage \in {"sca_osv", "sast_semgrep", "semantic_codeql"} :
                          StageClosed(r, stage) =>
                              RowOf(r, stage).error_message = CommandNotFound

\* C23: the stage rows of a run are opened in the order fetch_repo, sca_osv,
\* sast_semgrep, semantic_codeql, sonarqube_publish, normalize, finalize (the
\* rows are a prefix of that sequence), and a stage after the parallel pair
\* has a row only when the row of the stage before it is closed, and was
\* closed no later than the new row was started.
C23_StageOrder ==
    \A r \in RunIds :
        LET rows == stages[r]
        IN  /\ Len(rows) <= Len(Stages)
            /\ \A i \in 1..Len(rows) : rows[i].stage = Stages[i]
            /\ Len(rows) >= 4 => rows[2].ended_at # NULL
            /\ \A i \in 4..Len(rows) :
                   /\ rows[i - 1].ended_at # NULL
                   /\ rows[i - 1].ended_at <= rows[i].started_at

\* All seven rows of a run were opened, the last ones at a later time.
C23_Witness ==
    \E r \in RunIds :
        /\ Len(stages[r]) = Len(Stages)
        /\ stages[r][7].started_at > stages[r][1].started_at

RowOpen(r, stage) == HasRow(r, stage) /\ RowOf(r, stage).ended_at = NULL

\* C24: the sca_osv and sast_semgrep rows are both open when the two drivers
\* are started; while one of the two has not returned, neither row is closed,
\* there is no semantic_codeql row and the semantic-SAST driver has not been
\* started.
C24_PairBarrier ==
    \A d \in Dispatchers :
        LET r == loc[d].scan_id
        IN  /\ pc[d] = "pair" =>
                  /\ RowOpen(r, "sca_osv") /\ RowOpen(r, "sast_semgrep")
                  /\ launched[r] = {}
            /\ (r # NoRun /\ (loc[d].pend # {} \/ pc[d] = "pair")) =>
                  /\ RowOpen(r, "sca_osv") /\ RowOpen(r, "sast_semgrep")
                  /\ ~HasRow(r, "semantic_codeql")
                  /\ "codeql" \notin launched[r]
            /\ (r # NoRun /\ pc[d] \notin {"poll", "claim_commit", "sleep", "off"}
                /\ (StageClosed(r, "sca_osv") \/ StageClosed(r, "sast_semgrep")
                    \/ HasRow(r, "semantic_codeql") \/ "codeql" \in launched[r])) =>
                  /\ {"osv", "semgrep"} \subseteq launched[r]
                  /\ loc[d].pend = {}

\* One driver has returned and the other is still running, at a later time
\* than the rows were opened.
C24_Witness ==
    \E d \in Dispatchers :
        /\ pc[d] = "pair_wait" /\ Cardinality(loc[d].pend) = 1
        /\ RowOpen(loc[d].scan_id, "sast_semgrep")
        /\ now > RowOf(loc[d].scan_id, "sast_semgrep").started_at

\* The pipeline engine was invoked for run r and has returned.
EngineReturned(r) == invokedBy[r] # {} /\ Owner(r) = {}

\* C25: once the pipeline engine has returned for a run, every stage row of
\* the run is closed (non-null ended_at), also when a stage raised or the
\* global timeout fired.
C25_RowsClosedOnReturn ==
    \A r \in RunIds :
        EngineReturned(r) =>
            \A i \in 1..Len(stages[r]) : stages[r][i].ended_at # NULL

\* The SCA driver reported the legitimate empty result (scanner_runner.py 44-47).
EmptySca(d) == Joined(d) /\ loc[d].fut.osv = RunOsv(loc[d].dirOsv, ChildNoDeps)

\* C26: when the SCA driver reports the legitimate empty result (ok=true, no
\* artifact), the sca_osv row is closed with a null error_message, no
\* osv.sarif artifact is stored, and the run ends completed when the budget
\* was not exceeded.
C26_EmptyScaIsClean ==
    \A d \in Dispatchers :
        EmptySca(d) =>
            LET l == loc[d]
                r == l.scan_id
            IN  /\ StageClosed(r, "sca_osv") => RowOf(r, "sca_osv").error_message = NullStr
                /\ ~Stored(r, "osv.sarif")
                /\ (pc[d] = "cleanup" /\ ~TimedOut(l.started_global, now)) =>
                       runs[r].status = "completed"

\* C27: a run that reads completed has exactly one row for each of the seven
\* stages and all seven are closed; the finalize row is not open while the
\* run reads completed.
C27_CompletedHasClosedRows ==
    \A r \in RunIds :
        runs[r].status = "completed" =>
            /\ Len(stages[r]) = Len(Stages)
            /\ \A i \in 1..Len(stages[r]) :
                   stages[r][i].stage = Stages[i] /\ stages[r][i].ended_at # NULL

\* C28: the result_summary written by finalize reports OSV, Semgrep and CodeQL
\* as "ok" exactly when the tool's own driver returned ok=true and as "skip"
\* otherwise, and its count equals the number of Finding rows stored for the run.
C28_SummaryPerTool ==
    \A d \in Dispatchers :
        LET l == loc[d]
            r == l.scan_id
        IN  (Joined(d) /\ runs[r].result_summary # NoSummary) =>
                /\ runs[r].result_summary.osv = Tag(l.fut.osv)
                /\ runs[r].result_summary.semgrep = Tag(l.fut.semgrep)
                /\ runs[r].result_summary.codeql = Tag(l.codeql)
                /\ runs[r].result_summary.n = Len(findings[r])

\* The budget was exceeded while the semantic-SAST driver was running: the
\* engine of d holds a run whose semantic_codeql row was closed at a time that
\* is over the budget.
CodeqlOverBudget(d) ==
    LET r == loc[d].scan_id
    IN  /\ pc[d] \notin {"poll", "claim_commit", "sleep", "off"}
        /\ StageClosed(r, "semantic_codeql")
        /\ RowOf(r, "semantic_codeql").ended_at - loc[d].started_global > JOB_TIMEOUT_SECONDS

\* What C29 says about the stage rows: the engine goes to the handler with
\* "Job timeout", the semantic_codeql row carries the driver's error, and no
\* later stage has a row; a "Job timeout" raised after semantic_codeql was
\* opened finds its row closed.
CodeqlTimeoutRows(d) ==
    LET l == loc[d]
        r == l.scan_id
    IN  /\ CodeqlOverBudget(d) =>
              /\ pc[d] \in {"except", "cleanup"} /\ l.err = JobTimeout
              /\ RowOf(r, "semantic_codeql").error_message = ErrOf(l.codeql)
              /\ Len(stages[r]) = 4
        /\ (r # NoRun /\ l.err = JobTimeout /\ HasRow(r, "semantic_codeql")) =>
              StageClosed(r, "semantic_codeql")

C30_CurrentStageOfOpenRow ==
    \A r \in RunIds :
        \A i \in 1..Len(stages[r]) :
            stages[r][i].ended_at = NULL =>
                \/ runs[r].current_stage = stages[r][i].stage
                \/ /\ stages[r][i].stage = "sca_osv"
                   /\ runs[r].current_stage = "sast_semgrep"

\* ---------------------------------------------------------------- C31..C38
\* The driver that writes the file of a per-tool artifact name.
WriterOf(name) ==
    CASE name = "osv.sarif" -> "osv" [] name = "semgrep.sarif" -> "semgrep" [] OTHER -> "codeql"

\* C31: whatever the work directory path, the artifact stored as semgrep.sarif
\* is the file the pattern-SAST driver wrote and the artifact stored as
\* osv.sarif the file the SCA driver wrote, and a finding tagged semgrep or osv
\* comes from the file of that driver.
C31_ArtifactsOfOwnDriver ==
    \A r \in RunIds :
        /\ \A i \in 1..Len(artifacts[r]) :
               artifacts[r][i].name \in {"osv.sarif", "semgrep.sarif"} =>
                   artifacts[r][i].content.by = WriterOf(artifacts[r][i].name)
        /\ \A i \in 1..Len(findings[r]) :
               findings[r][i].tool \in {"osv", "semgrep"} =>
                   findings[r][i].by = findings[r][i].tool

\* One step keeps every stage row of run r, with its stage and started_at, and
\* keeps a closed row as it is; afterwards no stage name has two rows.
StageRowsKept(r) ==
    /\ Len(stages'[r]) >= Len(stages[r])
    /\ \A i \in 1..Len(stages[r]) :
           /\ stages'[r][i].stage = stages[r][i].stage
           /\ stages'[r][i].started_at = stages[r][i].started_at
           /\ stages[r][i].ended_at # NULL => stages'[r][i] = stages[r][i]
    /\ \A i, j \in 1..Len(stages'[r]) :
           stages'[r][i].stage = stages'[r][j].stage => i = j

\* C32: stage rows are append-only: no step of the pipeline deletes a stage
\* row, a run has at most one row per stage name, a row's started_at never
\* changes, and a closed row's ended_at and error_message never change.
C32_StageRowsAppendOnly == [][\A r \in RunIds : StageRowsKept(r)]_vars

\* A row was closed with an error and a later stage has a row.
C32_Witness ==
    \E r \in RunIds : \E i \in 1..Len(stages[r]) :
        /\ stages[r][i].ended_at # NULL
        /\ stages[r][i].error_message # NullStr
        /\ Len(stages[r]) > i + 1

\* What one step of dispatcher d's loop does: a claim transaction that raises
\* changes no run, invokes no engine and leads to the sleep; so does a poll
\* that found no queued run; the engine is invoked only for a run whose claim
\* committed; the sleep and the return of the engine both lead to the next
\* poll, the latter without sleeping; a running dispatcher is never stopped.
LoopStep(d) ==
    LET r == loc[d].scan_id
        moved == pc'[d] # pc[d]
    IN  /\ (pc[d] = "claim_commit" /\ moved /\ (faults' < faults \/ r = NoRun)) =>
               /\ runs' = runs
               /\ invokedBy' = invokedBy
               /\ pc'[d] = "sleep"
        /\ (pc[d] = "claim_commit" /\ moved /\ pc'[d] # "sleep") =>
               /\ pc'[d] = "job"
               /\ runs[r].status = "queued" /\ runs'[r].status = "running"
        /\ \A q \in RunIds : d \in invokedBy'[q] \ invokedBy[q] =>
               d \in claimedBy[q] /\ runs[q].status = "running"
        /\ (pc[d] \in {"sleep", "cleanup"} /\ moved) => pc'[d] = "poll"
        /\ pc[d] # "off" => pc'[d] # "off"

\* C33: a claim transaction that fails changes no run and invokes no engine,
\* and the dispatcher sleeps and polls again; it also sleeps when no run is
\* queued, polls again without sleeping when the engine has returned, and no
\* error ends the loop: a running dispatcher always has a next step.
C33_LoopSurvives ==
    /\ [](\A d \in Dispatchers : pc[d] # "off" => ENABLED Proc(d))
    /\ [][\A d \in Dispatchers : LoopStep(d)]_vars

\* The dispatcher sleeps after a claim transaction that raised: the run is
\* still queued and the fault was spent.
C33_Witness ==
    \E d \in Dispatchers : \E r \in RunIds :
        /\ pc[d] = "sleep"
        /\ runs[r].status = "queued" /\ invokedBy[r] = {}
        /\ faults < MaxFaults

\* A per-tool artifact file the normalize stage reads is not a valid
\* structured log: not JSON, or JSON whose top level is not an object.
BadLog(l) ==
    \E i \in 1..3 :
        LET tp == ToolPaths(l)[i]
        IN  IsFile(l, tp.path) /\ l.files[tp.path.file].kind \in {"invalid", "nonobject"}

\* C34: when a per-tool artifact file is not a valid structured log, the
\* normalizer yields no finding for it and does not raise: without catalog
\* error and timeout, a run that reached normalize ends completed, and every
\* stored finding comes from a file that is a valid log.
C34_BadLogTolerated ==
    \A d \in Dispatchers :
        LET l == loc[d]
            r == l.scan_id
        IN  (/\ pc[d] = "cleanup"
             /\ HasRow(r, "normalize") /\ BadLog(l)
             /\ faults = MaxFaults /\ l.err # JobTimeout) =>
                /\ runs[r].status = "completed"
                /\ \A i \in 1..Len(findings[r]) :
                       l.files[findings[r][i].by \o ".sarif"].kind = "object"

\* The child of a direct driver call whose spawn or timeout decides the
\* result: database create for run_codeql, the only child otherwise.
FirstChild == IF call.fn = "run_codeql" THEN call.args.create ELSE call.args.child

\* The result of the driver called directly.
DriverResult == IF call.fn = "run_codeql" THEN ret.value.res ELSE ret.value

\* The driver of this call starts a child (run_sonar only when configured).
DriverRan ==
    /\ call.fn \in {"run_osv", "run_semgrep", "run_codeql", "run_sonar"} /\ ret.done
    /\ call.fn = "run_sonar" => SonarConfigured(call.args.environ)

Failure(msg) == [ok |-> FALSE, msg |-> msg, path |-> NoPath]

\* C35: every driver returns ok=false, "command not found" and no artifact
\* when its binary cannot be spawned (and the work directory holds no output
\* file from elsewhere), and ok=false, "timeout" and no artifact when its
\* child exceeds the timeout and left no non-empty output file.
C35_SpawnAndTimeoutErrors ==
    DriverRan =>
        /\ (FirstChild.exit = "notfound" /\ FirstChild.file = "absent") =>
               DriverResult = Failure(CommandNotFound)
        /\ (FirstChild.exit = "timeout" /\ FirstChild.file # "full") =>
               DriverResult = Failure("timeout")
        /\ (/\ call.fn = "run_codeql" /\ RunChild(call.args.create).ok
            /\ call.args.analyze.exit = "timeout" /\ call.args.analyze.file # "full") =>
               DriverResult = Failure("timeout")

\* C36: run_semgrep returns ok=true with the semgrep.sarif path whenever the
\* file is there and non-empty when the child has ended, whether the child
\* exited zero, non-zero or was killed on timeout; it returns ok=false and no
\* artifact when the file is absent, and when it is empty and the child did
\* not exit zero.
C36_SemgrepPartialOutput ==
    (call.fn = "run_semgrep" /\ ret.done) =>
        LET child == call.args.child
        IN  /\ child.file = "full" =>
                  /\ ret.value.ok
                  /\ ret.value.path = SarifPath(call.args.dirOsv, "semgrep.sarif")
            /\ (child.file = "absent" \/ (child.file = "empty" /\ child.exit # "zero")) =>
                  /\ ~ret.value.ok
                  /\ ret.value.path = NoPath

\* The child was killed on timeout and left a non-empty file; the driver
\* returned ok with the path.
C36_Witness ==
    /\ call.fn = "run_semgrep" /\ ret.done
    /\ call.args.child.exit = "timeout" /\ call.args.child.file = "full"
    /\ ret.value.ok /\ ret.value.path # NoPath

\* The position of a step in the steps of a run_codeql call (0: not taken).
StepAt(steps, name) ==
    IF \E i \in 1..Len(steps) : steps[i] = name
    THEN CHOOSE i \in 1..Len(steps) : steps[i] = name ELSE 0

DecimalTexts == {"10.0", "9.8", "9.0", "8.9", "7.0", "6.9", "4.0", "3.9", "0", "-1"}

TenthsOf(s) ==
    CASE s = "10.0" -> 100 [] s = "9.8" -> 98 [] s = "9.0" -> 90 [] s = "8.9" -> 89
      [] s = "7.0" -> 70 [] s = "6.9" -> 69 [] s = "4.0" -> 40 [] s = "3.9" -> 39
      [] s = "0" -> 0 [] OTHER -> -10

\* The table of the severity mapping as the claim gives it.
TableSeverity(tool, raw, cvss) ==
    LET level == Upper(IF raw = NullStr THEN "" ELSE raw)
    IN  CASE tool = "osv" ->
                 IF cvss \in DecimalTexts
                 THEN IF TenthsOf(cvss) >= 90 THEN "CRITICAL"
                      ELSE IF TenthsOf(cvss) >= 70 THEN "HIGH"
                      ELSE IF TenthsOf(cvss) >= 40 THEN "MED" ELSE "LOW"
                 ELSE "MED"
          [] tool = "semgrep" ->
                 (CASE level = "ERROR" -> "HIGH" [] level = "WARNING" -> "MED"
                    [] level = "INFO" -> "INFO" [] OTHER -> "MED")
          [] tool = "codeql" ->
                 (CASE level = "ERROR" -> "HIGH" [] level = "WARNING" -> "MED"
                    [] level = "RECOMMENDATION" -> "LOW" [] level = "NOTE" -> "INFO"
                    [] OTHER -> "MED")
          [] OTHER -> "MED"

\* C38: _normalize_severity equals the table for every input: osv by the
\* decimal value of cvss (>= 9.0 CRITICAL, >= 7.0 HIGH, >= 4.0 MED, below LOW;
\* MED when cvss is absent or does not parse as a decimal), semgrep and codeql
\* by their level compared case-insensitively, MED for anything else and for
\* any other tool.
C38_SeverityTable ==
    (call.fn = "severity" /\ ret.done) =>
        ret.value = TableSeverity(call.args.tool, call.args.raw, call.args.cvss)

====
